---- MODULE Spec2Model ----
(***************************************************************************)
(* A model of the audio segmentation and resilient transcription pipeline  *)
(* of YouTube_Analyzer_Project (src/app.py.py):                            *)
(*   - _run_with_backoff, the retry executor;                              *)
(*   - split_audio_file, the size-aware chunking walk;                     *)
(*   - _transcribe_single_file / transcribe_audio_with_timestamps, the     *)
(*     remote backend and the merge of the per-chunk results;              *)
(*   - process_youtube_video, the orchestrator and its cleanup.            *)
(* and of the session and storage helpers around it:                       *)
(*   - DatabaseManager.insert_project / delete_project / get_project       *)
(*     (src/database.py);                                                  *)
(*   - check_chat_rate_limit (src/app.py.py);                              *)
(*   - record_sidebar_operation (src/sidebar_ops.py).                      *)
(* Times are integers in milliseconds.  File sizes are integers in units   *)
(* of 1/SizeUnitsPerMB MB, so the code's floating-point quotients are      *)
(* computed exactly (floor division).                                      *)
(***************************************************************************)
EXTENDS Integers, Sequences, FiniteSets, TLC

VARIABLES
    \* ---- _run_with_backoff: the frame of the running executor ----
    ex,          \* locals of _run_with_backoff and how it ended
    script,      \* the behaviour of `func`: outcome of its n-th call (retry specification)
    \* ---- split_audio_file ----
    seg,         \* locals of split_audio_file (start, chunk_num, chunk_duration_ms, chunks)
    \* ---- process_youtube_video ----
    run,         \* the run: stage, backend, asset, chunk cursor, merge accumulators
    fs,          \* files and directories of the run's session_dir that exist on disk
    apiLog,      \* outcomes of the calls of `func` in the executor's current invocation
    outcome,     \* what process_youtube_video handed to its caller (return or raise)
    \* ---- transcribe_audio_with_local_gpu ----
    gpu_model_cache,  \* the module global _gpu_model_cache: "None" or "model"
    model_loads,      \* how many times WhisperModel(...) was constructed in this process
    \* ---- the Streamlit session, the database, the clock ----
    session_state,    \* st.session_state: a mapping from keys to values
    db,               \* the projects table of DatabaseManager and its row counter
    now,              \* time.time(), in seconds
    trace,            \* the calls made so far and what each returned
    \* ---- the module global `config = Config()` ----
    config,           \* the fields of config that the model varies
    \* ---- threads of the process inside transcribe_audio_with_local_gpu ----
    threads,          \* per thread: its position and what it observed of the cache
    \* ---- the projects on disk and in the projects table ----
    store,            \* project directories in config.output_dir and in the trash, and
                      \* the project_dir values of the rows of the projects table
    \* ---- qa_service ----
    response_cache    \* the module global _response_cache: cache_key -> timestamp

\* The state outside the transcription pipeline; config is never assigned.
appState == <<session_state, db, now, trace, config, threads, store, response_cache>>

\* The state of the transcription pipeline.
pipeState == <<ex, script, seg, run, fs, apiLog, outcome, gpu_model_cache, model_loads>>

vars == <<ex, script, seg, run, fs, apiLog, outcome, gpu_model_cache, model_loads,
          session_state, db, now, trace, config, threads, store, response_cache>>

\* st.session_state of a fresh session: no key.
EmptySessionState == [k \in {} |-> 0]

\* The projects table after _init_database on a new file.
EmptyDb == [rows |-> {}, lastrowid |-> 0]

(***************************************************************************)
(* Bounds of the model.                                                    *)
(***************************************************************************)
\* Largest max_retries the retry specification draws.
MaxRetriesBound == 3

\* The script is not rerun once the model was constructed this many times.
MaxModelLoads == 2

(***************************************************************************)
(* Exceptions.  An exception object is a record: its Python class, the     *)
(* marker substrings its text str(e) holds, and the number of the call of  *)
(* `func` that raised it (its identity).                                   *)
(***************************************************************************)
\* Classes below Exception that `func` raises in the retry specification.
ExceptionClasses == {"ConnectionError", "ValueError"}

\* Every class below Exception the model knows: what (Exception,) catches.
Exception ==
    ExceptionClasses \cup
    { "DownloadError", "APIError", "CouldntDecodeError", "RuntimeError", "OSError",
      "AttributeError", "IOError", "sqlite3.Error",
      "AudioDownloadError", "TranscriptionError", "APIQuotaError",
      "FileSizeError", "APIConnectionError" }

NoValue == [ok |-> FALSE, cls |-> "none", text |-> {}, call |-> 0, val |-> 0]

\* func() returned on its n-th call, with payload v.
Success(n, v) == [ok |-> TRUE, cls |-> "none", text |-> {}, call |-> n, val |-> v]

\* func() raised on its n-th call an exception of class c whose text holds the markers t.
Raised(c, t, n) == [ok |-> FALSE, cls |-> c, text |-> t, call |-> n, val |-> 0]

(***************************************************************************)
(* _run_with_backoff (src/app.py.py 501-538).                              *)
(* Delays are in milliseconds: initial_delay=1.0 is 1000.                  *)
(***************************************************************************)
\* The frame before the first iteration: attempt = 0, delay = initial_delay.
ExStart(max_retries, initial_delay, backoff_factor, jitter, retry_exceptions) ==
    [ status           |-> "running",
      attempt          |-> 0,
      delay            |-> initial_delay,
      max_retries      |-> max_retries,
      backoff_factor   |-> backoff_factor,
      jitter           |-> jitter,
      retry_exceptions |-> retry_exceptions,
      calls            |-> 0,
      sleeps           |-> <<>>,
      result           |-> NoValue,
      error            |-> NoValue ]

ExIdle == [ExStart(0, 0, 0, 0, {}) EXCEPT !.status = "idle"]

\* Mutant of Caught: a bare `except Exception`, which catches every class.
CaughtAnyClass(e, out) == TRUE

\* `except retry_exceptions as exc`: is the raised class caught?
Caught(e, out) == out.cls \in e.retry_exceptions

\* Mutant of Exhausted: gives up one attempt early.
ExhaustedEarly(e) == e.attempt + 1 >= e.max_retries - 1

\* Mutant of Exhausted: `>` for `>=`, one attempt too many.
ExhaustedLate(e) == e.attempt + 1 > e.max_retries

\* `if attempt >= max_retries: raise`, attempt being already incremented.
Exhausted(e) == e.attempt + 1 >= e.max_retries

\* random.uniform(0, jitter): the draws the model distinguishes.
JitterDraws(e) == {0, e.jitter \div 2, e.jitter}

\* Mutant of SleepTime: the jitter scales with the delay (j thousandths of it).
SleepTimeProportional(e, j) == e.delay + (j * e.delay) \div 1000

\* sleep_time = delay + random.uniform(0, jitter)
SleepTime(e, j) == e.delay + j

\* One iteration of `while True`: attempt += 1, func() is called once and
\* gives `out`; then return, raise, or sleep and go round again.
ExAttempt(e, out, j) ==
    LET e1 == [e EXCEPT !.attempt = @ + 1, !.calls = @ + 1]
    IN  IF out.ok
          THEN [e1 EXCEPT !.status = "returned", !.result = out]
        ELSE IF ~Caught(e, out)
          THEN [e1 EXCEPT !.status = "raised", !.error = out]
        ELSE IF Exhausted(e)
          THEN [e1 EXCEPT !.status = "raised", !.error = out]
        ELSE [e1 EXCEPT !.sleeps = Append(@, SleepTime(e, j)),
                        !.delay = @ * e.backoff_factor]

(***************************************************************************)
(* Configuration (class Config, src/app.py.py 123-146) and the constants   *)
(* of split_audio_file.                                                    *)
(***************************************************************************)
max_audio_file_size_mb == 24

audio_chunk_size_mb == 20

audio_chunk_overlap_ms == 500

min_chunk_duration_ms == 300000

max_chunks == 100

\* config = Config(): the fields take the defaults of the dataclass.
Config == [audio_chunk_overlap_ms |-> audio_chunk_overlap_ms]

\* The threads that may call transcribe_audio_with_local_gpu at the same time.
Threads == {1, 2, 3}

\* A thread that has not entered the function.
ThreadIdle == [pc |-> "idle", saw_none |-> FALSE, stores_seen |-> 0,
               constructed |-> FALSE, overwrote |-> FALSE]

NoThreads == [t \in Threads |-> ThreadIdle]

\* No project directory anywhere, no row.
EmptyStore == [output |-> {}, trash |-> {}, rows |-> {}]

\* _response_cache = {}
EmptyCache == [k \in {} |-> 0]

\* Nothing outside the pipeline has happened.
AppIdle ==
    /\ session_state = EmptySessionState
    /\ db = EmptyDb
    /\ now = 0
    /\ trace = <<>>
    /\ config = Config
    /\ threads = NoThreads
    /\ store = EmptyStore
    /\ response_cache = EmptyCache

\* n megabytes in the model's size unit of 256 KiB (a quarter of 1024*1024 bytes).
MB(n) == 4 * n

\* floor(a * b / c) without forming a * b, which may exceed 32 bits.
MulDiv(a, b, c) == a * (b \div c) + (a * (b % c)) \div c

(***************************************************************************)
(* The session directory.  A path is a record; n >= 0 numbers a chunk.     *)
(***************************************************************************)
File(name) == [name |-> name, n |-> -1]

SessionDir == File("session_dir")

\* audio_path = session_dir / "audio.mp3" (download_audio)
AudioPath == File("audio.mp3")

\* chunk_dir = audio_path.parent / "chunks"
ChunkDir == File("chunks")

\* chunk_path = chunk_dir / f"chunk_{chunk_num:03d}.mp3"
ChunkPath(n) == [name |-> "chunks/chunk.mp3", n |-> n]

\* The paths a path lies under.
Ancestors(p) ==
    IF p = SessionDir THEN {}
    ELSE IF p.n >= 0 THEN {ChunkDir, SessionDir}
    ELSE {SessionDir}

(***************************************************************************)
(* Audio assets a download can produce: size (in 256 KiB units) and        *)
(* duration (ms).                                                          *)
(***************************************************************************)
Asset(size, duration_ms) == [size |-> size, duration_ms |-> duration_ms]

NoAsset == Asset(0, 0)

Assets ==
    { Asset(MB(10), 600000),         \* well under the limit
      Asset(MB(24), 1500000),        \* exactly at the limit
      Asset(MB(27) + 2, 1200000),    \* 27.5 MB, 20 minutes: 3 chunks
      Asset(MB(40), 1500000),        \* 40 MB, 25 minutes: 4 chunks
      Asset(MB(2002), 175000000) }   \* 48.6 hours at 96 kbps: more than max_chunks

(***************************************************************************)
(* split_audio_file (src/app.py.py 1124-1225): its arithmetic.             *)
(***************************************************************************)
\* Mutant of WithinLimit: `<` for `<=`.
StrictlyWithinLimit(a) == a.size < MB(max_audio_file_size_mb)

\* file_size_mb <= config.max_audio_file_size_mb
WithinLimit(a) == a.size <= MB(max_audio_file_size_mb)

\* int((audio_chunk_size_mb * 1024 * 1024 * 8) / file_bitrate_bps * 1000), where
\* file_bitrate_bps = (st_size * 8) / (total_duration_ms / 1000)
RawChunkDuration(a) == MulDiv(MB(audio_chunk_size_mb), a.duration_ms, a.size)

\* the two adjustments of chunk_duration_ms: the 5-minute floor, then progress
ChunkDuration(a) ==
    LET d1 == IF RawChunkDuration(a) < min_chunk_duration_ms
                THEN min_chunk_duration_ms ELSE RawChunkDuration(a)
    IN  IF d1 <= config.audio_chunk_overlap_ms
          THEN config.audio_chunk_overlap_ms * 2 ELSE d1

Min(a, b) == IF a < b THEN a ELSE b

\* Mutant of ChunkEnd: the end is not limited to the audio's duration.
ChunkEndUnclamped(sg) == sg.start + sg.chunk_duration_ms

\* end = min(start + chunk_duration_ms, total_duration_ms)
ChunkEnd(sg) == Min(sg.start + sg.chunk_duration_ms, sg.total_duration_ms)

\* Mutant of NewStart: the overlap is forgotten.
NewStartWithoutOverlap(sg) == ChunkEnd(sg)

\* Mutant of NewStart: no half-chunk advance when end - overlap does not pass start.
NewStartWithoutFallback(sg) == ChunkEnd(sg) - config.audio_chunk_overlap_ms

\* new_start: end - overlap, or half a chunk forward when that would not advance
NewStart(sg) ==
    LET new_start == ChunkEnd(sg) - config.audio_chunk_overlap_ms
    IN  IF new_start <= sg.start
          THEN sg.start + (sg.chunk_duration_ms \div 2)
          ELSE new_start

\* A chunk the walk exported: its file and the slice audio[start:end] it holds.
Chunk(path, start, end) == [path |-> path, start |-> start, end |-> end]

SegIdle == [active |-> FALSE, total_duration_ms |-> 0, chunk_duration_ms |-> 0,
            start |-> 0, chunk_num |-> 0, chunks |-> <<>>]

(***************************************************************************)
(* Transcription results and the run of process_youtube_video.             *)
(***************************************************************************)
\* A result object: its segments, how they are represented ("object":
\* attributes .start/.end/.text, "dict": keys), and its text parts.
Result(kind, segments, text) == [kind |-> kind, segments |-> segments, text |-> text]

NoResult == Result("none", <<>>, <<>>)

Segment(start, end, text) == [start |-> start, end |-> end, text |-> text]

\* What process_youtube_video handed to its caller: nothing yet, the
\* dictionary it returned, or the exception it raised.
NoOutcome == [kind |-> "none", error |-> NoValue, result |-> NoResult]

Returned(r) == [kind |-> "returned", error |-> NoValue, result |-> r]

RaisedToCaller(e) == [kind |-> "raised", error |-> e, result |-> NoResult]

RunIdle ==
    [ pc              |-> "idle",
      stage           |-> "Idle",
      use_local_gpu   |-> FALSE,
      asset           |-> NoAsset,
      audio_chunks    |-> <<>>,
      i               |-> 0,
      all_segments    |-> <<>>,
      cumulative_time |-> 0,
      full_text_parts |-> <<>>,
      result          |-> NoResult,
      error           |-> NoValue,
      failed_stage    |-> "none",
      visited         |-> {},
      env_fault       |-> FALSE,
      persist_failure |-> "none",
      cleanup         |-> "none",
      progress        |-> <<>> ]

(***************************************************************************)
(* The retry specification: _run_with_backoff on its own, against an       *)
(* operation whose behaviour on each call is fixed in advance (script).    *)
(***************************************************************************)
\* Length of the script: one call more than any policy allows.
ScriptLen == MaxRetriesBound + 1

ScriptOutcomes(n) ==
    {Success(n, 0)} \cup {Raised(c, {}, n) : c \in ExceptionClasses}

\* (initial_delay, jitter) in ms of the call sites: download, Whisper, local GPU, chat.
DelayPolicies == {<<1000, 500>>, <<2000, 600>>, <<500, 300>>, <<1000, 400>>}

\* retry_exceptions: the default (Exception,), and narrower tuples.
RetrySets == {Exception, {"ConnectionError"}, {}}

InitRetry ==
    /\ \E m \in 1..MaxRetriesBound, dp \in DelayPolicies, rs \in RetrySets :
          ex = ExStart(m, dp[1], 2, dp[2], rs)
    /\ script \in {s \in [1..ScriptLen -> UNION {ScriptOutcomes(n) : n \in 1..ScriptLen}] :
                      \A n \in 1..ScriptLen : s[n].call = n}
    /\ seg = SegIdle
    /\ run = RunIdle
    /\ fs = {}
    /\ apiLog = <<>>
    /\ outcome = NoOutcome
    /\ gpu_model_cache = "None"
    /\ model_loads = 0
    /\ AppIdle

\* func() on its next call.
Func == script[ex.calls + 1]

RetryReturn ==
    /\ ex.status = "running"
    /\ Func.ok
    /\ ex' = ExAttempt(ex, Func, 0)
    /\ UNCHANGED <<script, seg, run, fs, apiLog, outcome, gpu_model_cache, model_loads, appState>>

RetryPropagate ==
    /\ ex.status = "running"
    /\ ~Func.ok /\ ~Caught(ex, Func)
    /\ ex' = ExAttempt(ex, Func, 0)
    /\ UNCHANGED <<script, seg, run, fs, apiLog, outcome, gpu_model_cache, model_loads, appState>>

RetryGiveUp ==
    /\ ex.status = "running"
    /\ ~Func.ok /\ Caught(ex, Func) /\ Exhausted(ex)
    /\ ex' = ExAttempt(ex, Func, 0)
    /\ UNCHANGED <<script, seg, run, fs, apiLog, outcome, gpu_model_cache, model_loads, appState>>

RetrySleep ==
    /\ ex.status = "running"
    /\ ~Func.ok /\ Caught(ex, Func) /\ ~Exhausted(ex)
    /\ \E j \in JitterDraws(ex) : ex' = ExAttempt(ex, Func, j)
    /\ UNCHANGED <<script, seg, run, fs, apiLog, outcome, gpu_model_cache, model_loads, appState>>

NextRetry == RetryReturn \/ RetryPropagate \/ RetryGiveUp \/ RetrySleep

SpecRetry == InitRetry /\ [][NextRetry]_vars

(***************************************************************************)
(* Claims about the retry executor (checked under SpecRetry).              *)
(***************************************************************************)
\* The operation raises a retryable error on its first k calls and then succeeds.
FailsThenSucceeds(k) ==
    /\ \A n \in 1..k : ~script[n].ok /\ script[n].cls \in ex.retry_exceptions
    /\ script[k + 1].ok

\* The operation raises a retryable error on every call.
AlwaysFailsRetryable ==
    \A n \in 1..ScriptLen : ~script[n].ok /\ script[n].cls \in ex.retry_exceptions

\* C1: for every k < max_retries, against an operation that raises a
\* retryable error on its first k calls and then succeeds, the executor never
\* raises, is still running only while fewer than k+1 calls were made, and
\* returns exactly the value of call k+1 after exactly k+1 calls.
C1_ReturnsAfterKFailures ==
    \A k \in 0..(ex.max_retries - 1) :
        FailsThenSucceeds(k) =>
            /\ ex.status # "raised"
            /\ ex.status = "running" => ex.calls <= k /\ ENABLED NextRetry
            /\ ex.status = "returned" => ex.calls = k + 1 /\ ex.result = script[k + 1]

\* Witness of C1: a success on the last attempt the policy allows, after
\* max_retries - 1 retryable failures and as many sleeps.
W_C1_SuccessOnLastAttempt ==
    /\ ex.status = "returned"
    /\ ex.max_retries = MaxRetriesBound
    /\ FailsThenSucceeds(ex.max_retries - 1)
    /\ ex.calls = ex.max_retries
    /\ Len(ex.sleeps) = ex.max_retries - 1

\* C2: against an operation that raises a retryable error on every call, the
\* executor never returns, makes exactly max_retries calls, then stops, and
\* the error it raises is the very error of the last call.
C2_RaisesLastErrorAfterMaxAttempts ==
    AlwaysFailsRetryable =>
        /\ ex.status # "returned"
        /\ ex.status = "running" => ex.calls < ex.max_retries /\ ENABLED NextRetry
        /\ ex.status = "raised" =>
              /\ ex.calls = ex.max_retries
              /\ ex.error = script[ex.max_retries]
              /\ ~ENABLED NextRetry

\* Witness of C2: the executor gave up after MaxRetriesBound failed calls.
W_C2_GaveUp ==
    /\ AlwaysFailsRetryable
    /\ ex.status = "raised"
    /\ ex.max_retries = MaxRetriesBound
    /\ ex.calls = MaxRetriesBound
    /\ Len(ex.sleeps) = MaxRetriesBound - 1

\* C3: an error whose class is outside retry_exceptions is never retried: the
\* call that raises it is the last one, the error reaches the caller as it
\* is, and no sleep follows it; raised by the first call, it leaves exactly
\* one call and no sleep at all.
C3_UnlistedErrorNotRetried ==
    \A n \in 1..ScriptLen :
        (ex.calls >= n /\ ~script[n].ok /\ script[n].cls \notin ex.retry_exceptions) =>
            /\ ex.status = "raised"
            /\ ex.calls = n
            /\ ex.error = script[n]
            /\ Len(ex.sleeps) = n - 1
            /\ n = 1 => ex.sleeps = <<>>

\* Witness of C3: the first call raised a class the policy does not list,
\* under a policy that does retry another class.
W_C3_PropagatedOnFirstCall ==
    /\ ex.status = "raised"
    /\ ex.retry_exceptions = {"ConnectionError"}
    /\ ex.max_retries > 1
    /\ script[1].cls = "ValueError"
    /\ ex.calls = 1
    /\ ex.sleeps = <<>>

(***************************************************************************)
(* The pipeline specification: process_youtube_video (src/app.py.py        *)
(* 1688-1889) and what it calls, one run after another.                    *)
(***************************************************************************)
InitPipe ==
    /\ ex = ExIdle
    /\ script = <<>>
    /\ seg = SegIdle
    /\ run = RunIdle
    /\ fs = {}
    /\ apiLog = <<>>
    /\ outcome = NoOutcome
    /\ gpu_model_cache = "None"
    /\ model_loads = 0
    /\ AppIdle

\* The exception reaches `except Exception as e` of process_youtube_video.
Fail(r, stage, e) ==
    [r EXCEPT !.pc = "except", !.stage = "Failed", !.error = e, !.failed_stage = stage]

Enter(r, stage) == [r EXCEPT !.stage = stage, !.visited = @ \cup {stage}]

\* Mutant of ChunkProgress: the share of the chunks done, not mapped to 30-50.
ChunkProgressFromZero(i, n) == (i * 100) \div n

\* chunk_progress = 30 + int((i / len(audio_chunks)) * 20), i counted from 0
ChunkProgress(i, n) == 30 + (i * 20) \div n

\* int((progress_pct / 100) * 18) for progress_pct = (segment.end / info.duration) * 100,
\* by halves so that no intermediate value exceeds 32 bits
Scale18(end, duration) ==
    2 * ((9 * end) \div duration) + (2 * ((9 * end) % duration)) \div duration

\* The percents the segment loop of transcribe_audio_with_local_gpu reports
\* for segs[k..]: a report when progress_pct - last_progress_update >= 5.
RECURSIVE LocalReportsFrom(_, _, _, _)
LocalReportsFrom(segs, k, last_end, duration) ==
    IF k > Len(segs) THEN <<>>
    ELSE IF duration > 0 /\ segs[k].end - last_end >= (duration + 19) \div 20
      THEN <<32 + Scale18(segs[k].end, duration)>>
              \o LocalReportsFrom(segs, k + 1, segs[k].end, duration)
      ELSE LocalReportsFrom(segs, k + 1, last_end, duration)

LocalReports(segs, duration) == LocalReportsFrom(segs, 1, 0, duration)

\* update_progress after a file was written and before the next step.
ProgressAfterWrite(pc) ==
    CASE pc = "write_srt"         -> <<60, 65>>
      [] pc = "write_summary"     -> <<75, 80>>
      [] pc = "write_key_factors" -> <<90, 95>>
      [] pc = "write_metadata"    -> <<97>>
      [] OTHER                    -> <<>>

\* The caller (the "Process Video" handler, 3212-3228) makes a fresh
\* session_dir and calls process_youtube_video: update_progress(10, ...),
\* update_progress(15, ...); download_audio starts
\* _run_with_backoff("YouTube download", max_retries=3, 1.0, 2.0, jitter=0.5).
StartRun ==
    /\ run.pc = "idle"
    /\ \E gpu \in BOOLEAN, a \in Assets :
          run' = Enter([RunIdle EXCEPT !.pc = "download", !.use_local_gpu = gpu,
                                       !.asset = a, !.progress = <<10, 15>>],
                       "Downloading")
    /\ fs' = {SessionDir}
    /\ ex' = ExStart(3, 1000, 2, 500, Exception)
    /\ apiLog' = <<>>
    /\ outcome' = NoOutcome
    /\ UNCHANGED <<script, seg, gpu_model_cache, model_loads, appState>>

\* What one call of the operation behind run.pc can do.  A download returns
\* with the audio file written (1) or not (0); a Whisper call returns a
\* result with 0 or 1 segment, or raises with one of the marker texts.
WhisperErrorTexts == {{"413"}, {"quota"}, {"connection"}, {}}

ChatErrorTexts == {{"quota"}, {"connection"}, {}}

OpOutcomes(pc, n) ==
    CASE pc = "download" ->
            {Success(n, 1), Success(n, 0), Raised("DownloadError", {}, n)}
      [] pc = "transcribe" ->
            {Success(n, 0), Success(n, 1)}
            \cup {Raised("APIError", t, n) : t \in WhisperErrorTexts}
      [] pc \in {"summarize", "key_factors", "title"} ->
            {Success(n, 1)} \cup {Raised("APIError", t, n) : t \in ChatErrorTexts}
      [] pc = "local_transcribe" ->
            {Success(n, 0), Success(n, 1), Raised("RuntimeError", {}, n)}
      [] OTHER -> {}

\* One iteration of _run_with_backoff inside the run: the call, and the
\* return, raise or sleep that follows it.
PipeAttempt ==
    /\ ex.status = "running"
    /\ \E out \in OpOutcomes(run.pc, ex.calls + 1), j \in JitterDraws(ex) :
          /\ ex' = ExAttempt(ex, out, j)
          /\ apiLog' = Append(apiLog, out)
          /\ run' = [run EXCEPT !.env_fault = @ \/ ~out.ok]
    /\ UNCHANGED <<script, seg, fs, outcome, gpu_model_cache, model_loads, appState>>

\* download_audio, after _run_with_backoff: any exception becomes an
\* AudioDownloadError; so does a missing audio.mp3 (1113-1116).
DownloadRaises ==
    /\ run.pc = "download"
    /\ \/ ex.status = "raised"
       \/ ex.status = "returned" /\ ex.result.val = 0
    /\ run' = Fail([run EXCEPT !.env_fault = TRUE], "Downloading",
                   Raised("AudioDownloadError", {}, ex.calls))
    /\ ex' = ExIdle
    /\ UNCHANGED <<script, seg, fs, apiLog, outcome, gpu_model_cache, model_loads, appState>>

\* The transcription the run goes to next (1756-1763); the remote one first
\* calls split_audio_file.
DownloadReturns ==
    /\ run.pc = "download"
    /\ ex.status = "returned" /\ ex.result.val = 1
    /\ fs' = fs \cup {AudioPath}
    /\ LET r1 == [run EXCEPT !.progress = @ \o <<25, 30>>]
       IN  run' = IF run.use_local_gpu
                    THEN Enter([r1 EXCEPT !.pc = "local_load"], "Transcribing")
                    ELSE Enter([r1 EXCEPT !.pc = "split"], "Segmenting")
    /\ ex' = ExIdle
    /\ apiLog' = <<>>
    /\ UNCHANGED <<script, seg, outcome, gpu_model_cache, model_loads, appState>>

\* _transcribe_single_file starts _run_with_backoff("Whisper-1 transcription",
\* max_retries=3, initial_delay=2.0, backoff_factor=2.0, jitter=0.6).
WhisperStart == ExStart(3, 2000, 2, 600, Exception)

\* split_audio_file, file within the limit: `return [audio_path]`; then
\* len(audio_chunks) == 1 and the file is transcribed as it is.
SplitNotNeeded ==
    /\ run.pc = "split"
    /\ ~seg.active
    /\ WithinLimit(run.asset)
    /\ run' = Enter([run EXCEPT !.pc = "transcribe", !.i = 1,
                       !.audio_chunks = <<Chunk(AudioPath, 0, run.asset.duration_ms)>>],
                    "Transcribing")
    /\ ex' = WhisperStart
    /\ apiLog' = <<>>
    /\ UNCHANGED <<script, seg, fs, outcome, gpu_model_cache, model_loads, appState>>

\* split_audio_file, file over the limit: load, chunk_duration_ms, mkdir chunks.
SplitBegin ==
    /\ run.pc = "split"
    /\ ~seg.active
    /\ ~WithinLimit(run.asset)
    /\ seg' = [active |-> TRUE, total_duration_ms |-> run.asset.duration_ms,
               chunk_duration_ms |-> ChunkDuration(run.asset),
               start |-> 0, chunk_num |-> 0, chunks |-> <<>>]
    /\ fs' = fs \cup {ChunkDir}
    /\ UNCHANGED <<ex, script, run, apiLog, outcome, gpu_model_cache, model_loads, appState>>

\* Mutant of SplitLoopGuard: the chunk count is not tested.
SplitLoopGuardUnbounded(sg) == sg.start < sg.total_duration_ms

\* `while start < total_duration_ms and chunk_num < max_chunks`
SplitLoopGuard(sg) == sg.start < sg.total_duration_ms /\ sg.chunk_num < max_chunks

\* One iteration of the walk: slice, export, append, advance.  (`end <= start`
\* never holds here: start < total_duration_ms and chunk_duration_ms > 0.)
SplitChunk ==
    /\ run.pc = "split"
    /\ seg.active
    /\ SplitLoopGuard(seg)
    /\ ChunkEnd(seg) > seg.start
    /\ fs' = fs \cup {ChunkPath(seg.chunk_num)}
    /\ seg' = [seg EXCEPT
                 !.chunks = Append(@, Chunk(ChunkPath(seg.chunk_num), seg.start, ChunkEnd(seg))),
                 !.start = NewStart(seg),
                 !.chunk_num = @ + 1]
    /\ UNCHANGED <<ex, script, run, apiLog, outcome, gpu_model_cache, model_loads, appState>>

\* An exception inside the try (AudioSegment.from_mp3, export): wrapped as
\* AudioDownloadError("Failed to split audio file") at 1223-1225.
SplitRaises ==
    /\ run.pc = "split"
    /\ seg.active
    /\ SplitLoopGuard(seg)
    /\ run' = Fail([run EXCEPT !.env_fault = TRUE], "Segmenting",
                   Raised("AudioDownloadError", {}, seg.chunk_num))
    /\ seg' = SegIdle
    /\ UNCHANGED <<ex, script, fs, apiLog, outcome, gpu_model_cache, model_loads, appState>>

\* `if chunk_num >= max_chunks: raise AudioDownloadError(...)`, itself caught
\* and wrapped at 1223-1225.
SplitTooManyChunks ==
    /\ run.pc = "split"
    /\ seg.active
    /\ ~SplitLoopGuard(seg)
    /\ seg.chunk_num >= max_chunks
    /\ run' = Fail(run, "Segmenting", Raised("AudioDownloadError", {}, seg.chunk_num))
    /\ seg' = SegIdle
    /\ UNCHANGED <<ex, script, fs, apiLog, outcome, gpu_model_cache, model_loads, appState>>

\* `return chunks`; transcribe_audio_with_timestamps then transcribes the
\* chunks in order, starting with the first.
SplitReturns ==
    /\ run.pc = "split"
    /\ seg.active
    /\ ~SplitLoopGuard(seg)
    /\ seg.chunk_num < max_chunks
    /\ run' = Enter([run EXCEPT !.pc = "transcribe", !.i = 1, !.audio_chunks = seg.chunks,
                       !.progress = @ \o (IF Len(seg.chunks) > 1
                                            THEN <<30, ChunkProgress(0, Len(seg.chunks))>>
                                            ELSE <<>>)],
                    "Transcribing")
    /\ seg' = SegIdle
    /\ ex' = WhisperStart
    /\ apiLog' = <<>>
    /\ UNCHANGED <<script, fs, outcome, gpu_model_cache, model_loads, appState>>


(***************************************************************************)
(* _transcribe_single_file (1231-1296) and the chunk loop of               *)
(* transcribe_audio_with_timestamps (1326-1404).                           *)
(***************************************************************************)
\* The substrings a marker of an error text holds.
Substrings(m) == {m} \cup (IF m = "payload too large" THEN {"payload"} ELSE {})

\* `sub in error_str`
Contains(t, sub) == sub \in UNION {Substrings(m) : m \in t}

\* Mutant of TranscriptionErrorClass: the quota test comes first.
TranscriptionErrorClassQuotaFirst(t) ==
    IF Contains(t, "rate_limit") \/ Contains(t, "quota") \/ Contains(t, "429")
      THEN "APIQuotaError"
    ELSE IF Contains(t, "413") \/ Contains(t, "payload too large") \/ Contains(t, "file size")
      THEN "FileSizeError"
    ELSE IF Contains(t, "connection") \/ Contains(t, "timeout") \/ Contains(t, "network")
      THEN "APIConnectionError"
    ELSE "TranscriptionError"

\* The except clause of _transcribe_single_file: the class raised for the
\* lower-cased text of the exception _run_with_backoff let through.
TranscriptionErrorClass(t) ==
    IF Contains(t, "413") \/ Contains(t, "payload too large") \/ Contains(t, "file size")
      THEN "FileSizeError"
    ELSE IF Contains(t, "rate_limit") \/ Contains(t, "quota") \/ Contains(t, "429")
      THEN "APIQuotaError"
    ELSE IF Contains(t, "connection") \/ Contains(t, "timeout") \/ Contains(t, "network")
      THEN "APIConnectionError"
    ELSE "TranscriptionError"

\* The segments the backend returns for a slice of `duration` ms, by payload
\* v: none; one for the whole slice; two, the second starting in the last
\* quarter second; one at the very end.  Times are relative to the slice,
\* starts are in non-decreasing order and within [0, duration].
ResultSegments(v, duration, label) ==
    CASE v = 0 -> <<>>
      [] v = 1 -> <<Segment(0, duration, label)>>
      [] v = 2 -> <<Segment(0, duration \div 2, label),
                    Segment(duration - Min(duration, 250), duration, label)>>
      [] v = 3 -> <<Segment(duration, duration, label)>>

\* 'start': segment.start + cumulative_time, 'end': segment.end + cumulative_time
Adjusted(segs, cumulative_time) ==
    [k \in DOMAIN segs |->
        Segment(segs[k].start + cumulative_time, segs[k].end + cumulative_time, segs[k].text)]

\* AudioSegment.from_mp3(chunk_path).duration_seconds of an exported slice, in ms
ChunkFileDuration(c) == c.end - c.start

\* Mutant of NextCumulativeTime: the overlap is not subtracted.
NextCumulativeTimeWithOverlap(cumulative_time, c) ==
    cumulative_time + ChunkFileDuration(c)

\* Mutant of NextCumulativeTime: the overlap is subtracted twice.
NextCumulativeTimeOverlapTwice(cumulative_time, c) ==
    cumulative_time + ChunkFileDuration(c) - 2 * config.audio_chunk_overlap_ms

\* cumulative_time += chunk_duration_s - (config.audio_chunk_overlap_ms / 1000.0)
NextCumulativeTime(cumulative_time, c) ==
    cumulative_time + ChunkFileDuration(c) - config.audio_chunk_overlap_ms

CurrentChunk == run.audio_chunks[run.i]

\* The first write of process_youtube_video after the transcription returned.
ToPersisting(r) == Enter([r EXCEPT !.pc = "write_transcript"], "PersistingArtifacts")

\* _transcribe_single_file raises: the exception of the last API call,
\* classified by its text.
TranscribeRaises ==
    /\ run.pc = "transcribe"
    /\ ex.status = "raised"
    /\ run' = Fail(run, "Transcribing",
                   Raised(TranscriptionErrorClass(ex.error.text), {}, ex.calls))
    /\ ex' = ExIdle
    /\ UNCHANGED <<script, seg, fs, apiLog, outcome, gpu_model_cache, model_loads, appState>>

\* len(audio_chunks) == 1: `return _transcribe_single_file(audio_chunks[0])`,
\* the API's own result object.
TranscribeSingleReturns ==
    /\ run.pc = "transcribe"
    /\ ex.status = "returned"
    /\ Len(run.audio_chunks) = 1
    /\ run' = ToPersisting([run EXCEPT
                 !.result = Result("object",
                               ResultSegments(ex.result.val, ChunkFileDuration(CurrentChunk), 1),
                               <<1>>),
                 !.progress = @ \o <<50, 52>>])
    /\ ex' = ExIdle
    /\ apiLog' = <<>>
    /\ UNCHANGED <<script, seg, fs, outcome, gpu_model_cache, model_loads, appState>>

\* One iteration of `for i, chunk_path in enumerate(audio_chunks)`: the
\* chunk's segments are shifted and appended, its text collected, the offset
\* advanced; the next chunk's transcription starts, or the loop ends.
TranscribeChunkReturns ==
    /\ run.pc = "transcribe"
    /\ ex.status = "returned"
    /\ Len(run.audio_chunks) > 1
    /\ LET segs == ResultSegments(ex.result.val, ChunkFileDuration(CurrentChunk), run.i)
           r1   == [run EXCEPT
                      !.all_segments = @ \o Adjusted(segs, run.cumulative_time),
                      !.full_text_parts = Append(@, run.i),
                      !.cumulative_time = NextCumulativeTime(@, CurrentChunk)]
       IN  IF run.i < Len(run.audio_chunks)
             THEN /\ run' = [r1 EXCEPT !.i = @ + 1,
                                         !.progress = Append(@, ChunkProgress(run.i,
                                                                  Len(run.audio_chunks)))]
                  /\ ex' = WhisperStart
             ELSE /\ run' = Enter([r1 EXCEPT !.pc = "merge"], "Merging")
                  /\ ex' = ExIdle
    /\ apiLog' = <<>>
    /\ UNCHANGED <<script, seg, fs, outcome, gpu_model_cache, model_loads, appState>>

\* What shutil.rmtree(chunk_dir) removes.
ChunkTree == {p \in fs : p = ChunkDir \/ p.n >= 0}

\* After the loop: CombinedTranscriptionResult(all_segments, combined_text),
\* whose segments are the adjusted dicts; the chunks directory is removed.
MergeReturns ==
    /\ run.pc = "merge"
    /\ run' = ToPersisting([run EXCEPT
                 !.result = Result("dict", run.all_segments, run.full_text_parts),
                 !.progress = @ \o <<50, 50, 52>>])
    /\ fs' = fs \ ChunkTree
    /\ UNCHANGED <<ex, script, seg, apiLog, outcome, gpu_model_cache, model_loads, appState>>

\* The same, with shutil.rmtree(chunk_dir) raising: logged as a warning.
MergeReturnsCleanupFailed ==
    /\ run.pc = "merge"
    /\ run' = ToPersisting([run EXCEPT
                 !.result = Result("dict", run.all_segments, run.full_text_parts),
                 !.progress = @ \o <<50, 50, 52>>])
    /\ UNCHANGED <<ex, script, seg, fs, apiLog, outcome, gpu_model_cache, model_loads, appState>>

(***************************************************************************)
(* transcribe_audio_with_local_gpu (1413-1513).                            *)
(***************************************************************************)
\* Mutant of LocalStart: three attempts, as for the remote calls.
LocalStartThreeAttempts == ExStart(3, 500, 2, 300, Exception)

\* _run_with_backoff("Local GPU transcription", max_retries=2, 0.5, 2.0, jitter=0.3)
LocalStart == ExStart(2, 500, 2, 300, Exception)

\* `if _gpu_model_cache is None`: the model is constructed and cached; then
\* _run_with_backoff is started on the model's transcribe.
LocalLoadModel ==
    /\ run.pc = "local_load"
    /\ gpu_model_cache = "None"
    /\ gpu_model_cache' = "model"
    /\ model_loads' = model_loads + 1
    /\ run' = [run EXCEPT !.pc = "local_transcribe", !.progress = @ \o <<30, 32>>]
    /\ ex' = LocalStart
    /\ apiLog' = <<>>
    /\ UNCHANGED <<script, seg, fs, outcome, appState>>

\* `_gpu_model_cache is None` is false: the cached model is used as it is.
LocalReuseModel ==
    /\ run.pc = "local_load"
    /\ gpu_model_cache # "None"
    /\ run' = [run EXCEPT !.pc = "local_transcribe", !.progress = Append(@, 32)]
    /\ ex' = LocalStart
    /\ apiLog' = <<>>
    /\ UNCHANGED <<script, seg, fs, outcome, gpu_model_cache, model_loads, appState>>

\* WhisperModel(...) raises: caught by `except Exception`, TranscriptionError.
LocalLoadRaises ==
    /\ run.pc = "local_load"
    /\ gpu_model_cache = "None"
    /\ run' = Fail([run EXCEPT !.env_fault = TRUE, !.progress = Append(@, 30)],
                   "Transcribing", Raised("TranscriptionError", {}, 0))
    /\ UNCHANGED <<ex, script, seg, fs, apiLog, outcome, gpu_model_cache, model_loads, appState>>

\* _run_with_backoff raised: caught by `except Exception`, TranscriptionError.
LocalTranscribeRaises ==
    /\ run.pc = "local_transcribe"
    /\ ex.status = "raised"
    /\ run' = Fail(run, "Transcribing", Raised("TranscriptionError", {}, ex.calls))
    /\ ex' = ExIdle
    /\ UNCHANGED <<script, seg, fs, apiLog, outcome, gpu_model_cache, model_loads, appState>>

\* The segments segments_iter can yield for an audio of `duration` ms when
\* the payload is v: none; one for the whole audio; four, the first two
\* ending before 5% and at 6.25% of the duration.
LocalSegments(v, duration) ==
    IF v = 0 THEN {<<>>}
    ELSE { <<Segment(0, duration, 1)>>,
           <<Segment(0, duration \div 40, 1),
             Segment(duration \div 40, duration \div 16, 1),
             Segment(duration \div 16, duration \div 2, 1),
             Segment(duration \div 2, duration, 1)>> }

\* The segments are collected, with a progress report whenever 5% more of
\* info.duration is covered; GPUTranscriptionResult holds Segment objects.
LocalTranscribeReturns ==
    /\ run.pc = "local_transcribe"
    /\ ex.status = "returned"
    /\ \E segs \in LocalSegments(ex.result.val, run.asset.duration_ms) :
          run' = ToPersisting([run EXCEPT
                    !.result = Result("object", segs, <<1>>),
                    !.progress = @ \o LocalReports(segs, run.asset.duration_ms)
                                   \o <<50, 52>>])
    /\ ex' = ExIdle
    /\ apiLog' = <<>>
    /\ UNCHANGED <<script, seg, fs, outcome, gpu_model_cache, model_loads, appState>>

\* Iterating segments_iter raises (the inference runs lazily, outside
\* _run_with_backoff): caught by `except Exception`, TranscriptionError.
LocalIterationRaises ==
    /\ run.pc = "local_transcribe"
    /\ ex.status = "returned"
    /\ \E segs \in LocalSegments(ex.result.val, run.asset.duration_ms), k \in 0..1 :
          run' = Fail([run EXCEPT
                         !.env_fault = TRUE,
                         !.progress = @ \o LocalReports(SubSeq(segs, 1, Len(segs) - k),
                                                        run.asset.duration_ms)],
                      "Transcribing", Raised("TranscriptionError", {}, ex.calls))
    /\ ex' = ExIdle
    /\ UNCHANGED <<script, seg, fs, apiLog, outcome, gpu_model_cache, model_loads, appState>>


(***************************************************************************)
(* process_youtube_video after the transcription: the files, the three     *)
(* chat completions, the database row (1765-1878), and the handler of      *)
(* `except Exception as e` (1880-1889).                                    *)
(***************************************************************************)
\* The steps that call safe_write_text, and the file each writes.
WritePcs == {"write_transcript", "write_timestamped", "write_srt",
             "write_summary", "write_key_factors", "write_metadata"}

\* The steps that call call_openai_with_retry.
ChatPcs == {"summarize", "key_factors", "title"}

WrittenFile(pc) ==
    CASE pc = "write_transcript"  -> File("transcript.txt")
      [] pc = "write_timestamped" -> File("transcript_with_timestamps.txt")
      [] pc = "write_srt"         -> File("transcript.srt")
      [] pc = "write_summary"     -> File("summary.txt")
      [] pc = "write_key_factors" -> File("key_factors.txt")
      [] pc = "write_metadata"    -> File("metadata.json")

\* The order of the steps in the body of process_youtube_video.
NextPc(pc) ==
    CASE pc = "write_transcript"  -> "write_timestamped"
      [] pc = "write_timestamped" -> "write_srt"
      [] pc = "write_srt"         -> "summarize"
      [] pc = "summarize"         -> "write_summary"
      [] pc = "write_summary"     -> "key_factors"
      [] pc = "key_factors"       -> "write_key_factors"
      [] pc = "write_key_factors" -> "title"
      [] pc = "title"             -> "write_metadata"
      [] pc = "write_metadata"    -> "db_insert"

\* call_openai_with_retry starts _run_with_backoff("OpenAI chat completion",
\* max_retries=3, initial_delay=1.0, backoff_factor=2.0, jitter=0.4).
ChatStart == ExStart(3, 1000, 2, 400, Exception)

ExFor(pc) == IF pc \in ChatPcs THEN ChatStart ELSE ExIdle

\* `seg.start` on the segments of the result: an attribute access, which a
\* dict does not support.
SegmentAttributesReadable(r) == r.kind = "object" \/ r.segments = <<>>

\* safe_write_text returned True; the next step begins.
SafeWriteReturnsTrue ==
    /\ run.pc \in WritePcs
    /\ run.pc = "write_timestamped" => SegmentAttributesReadable(run.result)
    /\ fs' = fs \cup {WrittenFile(run.pc)}
    /\ run' = [run EXCEPT !.pc = NextPc(run.pc),
                          !.progress = @ \o ProgressAfterWrite(run.pc)]
    /\ ex' = ExFor(NextPc(run.pc))
    /\ apiLog' = <<>>
    /\ UNCHANGED <<script, seg, outcome, gpu_model_cache, model_loads, appState>>

\* safe_write_text returned False: `raise IOError("Failed to save ... file")`.
SafeWriteReturnsFalse ==
    /\ run.pc \in WritePcs
    /\ run.pc = "write_timestamped" => SegmentAttributesReadable(run.result)
    /\ run' = Fail([run EXCEPT !.env_fault = TRUE, !.persist_failure = "write"],
                   "PersistingArtifacts", Raised("IOError", {}, 0))
    /\ UNCHANGED <<ex, script, seg, fs, apiLog, outcome, gpu_model_cache, model_loads, appState>>

\* `format_timestamp(seg.start)` with seg a dict: AttributeError (1778-1781).
TimestampedLinesRaise ==
    /\ run.pc = "write_timestamped"
    /\ ~SegmentAttributesReadable(run.result)
    /\ run' = Fail(run, "PersistingArtifacts", Raised("AttributeError", {}, 0))
    /\ UNCHANGED <<ex, script, seg, fs, apiLog, outcome, gpu_model_cache, model_loads, appState>>

\* call_openai_with_retry returned the completion.
ChatReturns ==
    /\ run.pc \in ChatPcs
    /\ ex.status = "returned"
    /\ run' = [run EXCEPT !.pc = NextPc(run.pc)]
    /\ ex' = ExIdle
    /\ apiLog' = <<>>
    /\ UNCHANGED <<script, seg, fs, outcome, gpu_model_cache, model_loads, appState>>

\* The except clause of call_openai_with_retry (1558-1572): APIQuotaError,
\* APIConnectionError, or the exception itself re-raised.
ChatError(e) ==
    IF Contains(e.text, "rate_limit") \/ Contains(e.text, "quota") \/ Contains(e.text, "429")
      THEN Raised("APIQuotaError", {}, e.call)
    ELSE IF Contains(e.text, "connection") \/ Contains(e.text, "timeout")
            \/ Contains(e.text, "network")
      THEN Raised("APIConnectionError", {}, e.call)
    ELSE e

ChatRaises ==
    /\ run.pc \in ChatPcs
    /\ ex.status = "raised"
    /\ run' = Fail(run, "PersistingArtifacts", ChatError(ex.error))
    /\ ex' = ExIdle
    /\ UNCHANGED <<script, seg, fs, apiLog, outcome, gpu_model_cache, model_loads, appState>>

\* db_manager.insert_project returned: next, the audio file is unlinked.
DbInsertReturns ==
    /\ run.pc = "db_insert"
    /\ run' = [run EXCEPT !.pc = "unlink_audio", !.progress = Append(@, 98)]
    /\ UNCHANGED <<ex, script, seg, fs, apiLog, outcome, gpu_model_cache, model_loads, appState>>

\* Mutant of AfterDbInsertRaises: no inner try, the exception leaves the body.
DbInsertErrorPropagates(r) ==
    Fail([r EXCEPT !.env_fault = TRUE, !.persist_failure = "db"],
         "PersistingArtifacts", Raised("sqlite3.Error", {}, 0))

\* insert_project raised: `except Exception as e: logger.warning(...)`, and
\* the body goes on to its return (1862-1866).
AfterDbInsertRaises(r) ==
    [r EXCEPT !.env_fault = TRUE, !.persist_failure = "db", !.pc = "return"]

DbInsertRaises ==
    /\ run.pc = "db_insert"
    /\ run' = AfterDbInsertRaises(run)
    /\ UNCHANGED <<ex, script, seg, fs, apiLog, outcome, gpu_model_cache, model_loads, appState>>

\* Mutant of UnlinkAudio: the audio file is left where it is.
UnlinkAudioSkipped ==
    /\ run.pc = "unlink_audio"
    /\ fs' = fs
    /\ run' = [run EXCEPT !.pc = "return", !.cleanup = "ok"]
    /\ UNCHANGED <<ex, script, seg, apiLog, outcome, gpu_model_cache, model_loads, appState>>

\* audio_path.unlink() after the database save.
UnlinkAudio ==
    /\ run.pc = "unlink_audio"
    /\ fs' = fs \ {AudioPath}
    /\ run' = [run EXCEPT !.pc = "return", !.cleanup = "ok"]
    /\ UNCHANGED <<ex, script, seg, apiLog, outcome, gpu_model_cache, model_loads, appState>>

\* audio_path.unlink() raised: logged as a warning (1858-1860).
UnlinkAudioRaises ==
    /\ run.pc = "unlink_audio"
    /\ run' = [run EXCEPT !.pc = "return", !.cleanup = "failed"]
    /\ UNCHANGED <<ex, script, seg, fs, apiLog, outcome, gpu_model_cache, model_loads, appState>>

\* `return {...}`: the in-memory results go to the caller.
ReturnResults ==
    /\ run.pc = "return"
    /\ run' = Enter([run EXCEPT !.pc = "done", !.progress = Append(@, 100)], "Complete")
    /\ outcome' = Returned(run.result)
    /\ UNCHANGED <<ex, script, seg, fs, apiLog, gpu_model_cache, model_loads, appState>>

\* Mutant of Reraised: an exception of the cleanup replaces the one caught.
ReraisedOrCleanupError(e, cleanup_error) ==
    IF cleanup_error = NoValue THEN e ELSE cleanup_error

\* The bare `raise` that ends the handler: the exception caught as `e`;
\* cleanup_error was caught and logged inside the handler.
Reraised(e, cleanup_error) == e

\* Mutant of RmtreeTarget: only the chunks directory is removed.
RmtreeChunksOnly == ChunkTree

\* shutil.rmtree(session_dir): the whole tree of the run.
RmtreeTarget == fs

\* The handler with shutil.rmtree succeeding, then `raise`.
HandlerCleansUp ==
    /\ run.pc = "except"
    /\ fs' = fs \ RmtreeTarget
    /\ run' = [run EXCEPT !.pc = "done", !.cleanup = "ok"]
    /\ outcome' = RaisedToCaller(Reraised(run.error, NoValue))
    /\ UNCHANGED <<ex, script, seg, apiLog, gpu_model_cache, model_loads, appState>>

\* What a failed shutil.rmtree(session_dir) can leave behind: everything, the
\* audio file, the chunks tree, or the emptied directory alone.
RmtreeLeftovers ==
    { fs, {SessionDir} \cup (fs \cap {AudioPath}), {SessionDir} \cup ChunkTree, {SessionDir} }

\* The handler with shutil.rmtree raising cleanup_error: a warning, then `raise`.
HandlerCleanupFails ==
    /\ run.pc = "except"
    /\ \E left \in RmtreeLeftovers : fs' = left
    /\ run' = [run EXCEPT !.pc = "done", !.cleanup = "failed"]
    /\ outcome' = RaisedToCaller(Reraised(run.error, Raised("OSError", {}, 0)))
    /\ UNCHANGED <<ex, script, seg, apiLog, gpu_model_cache, model_loads, appState>>

\* The caller is done with the run and calls process_youtube_video again
\* without the module being executed again (a program that imports the
\* module, as src/app.py and the tests do).
CallerDone ==
    /\ run.pc = "done"
    /\ run' = RunIdle
    /\ fs' = {}
    /\ outcome' = NoOutcome
    /\ apiLog' = <<>>
    /\ UNCHANGED <<ex, script, seg, gpu_model_cache, model_loads, appState>>

\* Streamlit runs app.py.py again, top to bottom, in the same process, for the
\* next interaction (run.py: `streamlit run app.py.py`): the module-level
\* statement `_gpu_model_cache = None` (1411) is executed again before the
\* button handler at 3212-3228 can start the next run.  st.session_state
\* and the database outlive the rerun.
ScriptRerun ==
    /\ run.pc = "done"
    /\ model_loads < MaxModelLoads
    /\ run' = RunIdle
    /\ fs' = {}
    /\ outcome' = NoOutcome
    /\ apiLog' = <<>>
    /\ gpu_model_cache' = "None"
    /\ UNCHANGED <<ex, script, seg, model_loads, appState>>

NextPipe ==
    \/ StartRun \/ PipeAttempt \/ DownloadRaises \/ DownloadReturns
    \/ SplitNotNeeded \/ SplitBegin \/ SplitChunk \/ SplitRaises
    \/ SplitTooManyChunks \/ SplitReturns
    \/ TranscribeRaises \/ TranscribeSingleReturns \/ TranscribeChunkReturns
    \/ MergeReturns \/ MergeReturnsCleanupFailed
    \/ LocalLoadModel \/ LocalReuseModel \/ LocalLoadRaises
    \/ LocalTranscribeRaises \/ LocalTranscribeReturns \/ LocalIterationRaises
    \/ SafeWriteReturnsTrue \/ SafeWriteReturnsFalse \/ TimestampedLinesRaise
    \/ ChatReturns \/ ChatRaises
    \/ DbInsertReturns \/ DbInsertRaises \/ UnlinkAudio \/ UnlinkAudioRaises
    \/ ReturnResults \/ HandlerCleansUp \/ HandlerCleanupFails \/ CallerDone
    \/ ScriptRerun

Spec == InitPipe /\ [][NextPipe]_vars


(***************************************************************************)
(* The segmentation specification: split_audio_file on its own, on assets  *)
(* drawn from a grid of sizes and durations.                               *)
(***************************************************************************)
\* Sizes from 256 KiB to 2002 MB, on both sides of the 24 MB limit; the three
\* largest need 99, 100 and more than 100 chunks at the longer durations.
SplitSizes == {1, MB(10), MB(24) - 1, MB(24), MB(24) + 1, MB(27) + 2, MB(40),
               MB(1940), MB(1960), MB(2002)}

\* Durations in ms, from one millisecond to 48.6 hours.
SplitDurations == {1, 400, 500, 501, 1000, 299999, 300000, 300001, 600000,
                   1200000, 3600000, 36000000, 175000000}

InitSplit ==
    /\ ex = ExIdle
    /\ script = <<>>
    /\ seg = SegIdle
    /\ \E sz \in SplitSizes, d \in SplitDurations :
          run = [RunIdle EXCEPT !.pc = "split", !.stage = "Segmenting",
                                !.asset = Asset(sz, d)]
    /\ fs = {SessionDir, AudioPath}
    /\ apiLog = <<>>
    /\ outcome = NoOutcome
    /\ gpu_model_cache = "None"
    /\ model_loads = 0
    /\ AppIdle

NextSplit ==
    \/ SplitNotNeeded \/ SplitBegin \/ SplitChunk \/ SplitRaises
    \/ SplitTooManyChunks \/ SplitReturns

SpecSplit == InitSplit /\ [][NextSplit]_vars

(***************************************************************************)
(* Claims about the remote backend and the orchestrator (checked under     *)
(* Spec).                                                                  *)
(***************************************************************************)
\* The API calls made for the chunk being transcribed, or for the chunk
\* whose transcription failed the run.
WhisperLog ==
    IF run.pc = "transcribe" \/ (run.failed_stage = "Transcribing" /\ ~run.use_local_gpu)
      THEN apiLog ELSE <<>>

\* The text of a quota-exceeded error: "rate_limit", "quota" or "429".
IsQuotaError(out) ==
    ~out.ok /\ (Contains(out.text, "rate_limit") \/ Contains(out.text, "quota")
                \/ Contains(out.text, "429"))

\* C4 (as claimed): an API call that fails with a quota-exceeded error is the
\* only call made for its chunk, and the error that reaches the caller of
\* process_youtube_video is an APIQuotaError.
C4_QuotaErrorNotRetried ==
    \A n \in DOMAIN WhisperLog :
        IsQuotaError(WhisperLog[n]) =>
            /\ Len(WhisperLog) = 1
            /\ outcome.kind = "raised" => outcome.error.cls = "APIQuotaError"

\* The chunks directory or the downloaded audio file is on disk.
ResidueOnDisk == ChunkTree # {} \/ AudioPath \in fs

FailedInTranscribing == outcome.kind = "raised" /\ run.failed_stage = "Transcribing"

FailedStages == {"Downloading", "Segmenting", "Transcribing", "Merging", "PersistingArtifacts"}

\* C6: once an exception of a stage has reached the handler, the run hands its
\* caller that very exception and nothing else: it never returns a result,
\* and a failing cleanup does not replace the exception.
C6_ReraisesTheStageError ==
    /\ (run.error # NoValue /\ outcome.kind # "none") =>
            outcome = RaisedToCaller(run.error)
    /\ outcome.kind = "raised" =>
            /\ run.error # NoValue
            /\ run.failed_stage \in FailedStages
    /\ outcome.kind = "returned" => run.error = NoValue /\ run.failed_stage = "none"

\* Witness of C6: a run failed while persisting, its directory could not be
\* removed, and the IOError of the failed write reached the caller.
W_C6_RaisedDespiteCleanupFailure ==
    /\ outcome.kind = "raised"
    /\ run.failed_stage = "PersistingArtifacts"
    /\ run.cleanup = "failed"
    /\ SessionDir \in fs
    /\ outcome.error.cls = "IOError"

\* The files process_youtube_video writes before the database insert.
ArtifactFiles == {WrittenFile(pc) : pc \in WritePcs}

\* C7 (as claimed): a failed storage write or database insert after the
\* transcription does not fail the run: the results are returned and the
\* files written so far stay.
C7_PersistFailureNotFatal ==
    (run.persist_failure # "none" /\ outcome.kind # "none") =>
        /\ outcome = Returned(run.result)
        /\ SessionDir \in fs

\* C7 (amended): only a failed database insert is tolerated: the run then
\* returns its in-memory results and every file it wrote, the audio file
\* included, stays.  A failed storage write raises IOError to the caller.
C7_OnlyDbFailureTolerated ==
    /\ (run.persist_failure = "db" /\ outcome.kind # "none") =>
            /\ outcome = Returned(run.result)
            /\ run.stage = "Complete"
            /\ ArtifactFiles \cup {SessionDir, AudioPath} \subseteq fs
    /\ (run.persist_failure = "write" /\ outcome.kind # "none") =>
            /\ outcome.kind = "raised"
            /\ outcome.error.cls = "IOError"
            /\ run.cleanup = "ok" => fs = {}

\* Witness of C7: the database insert failed and the run returned a
\* transcript with a segment.
W_C7_ReturnedAfterDbFailure ==
    /\ run.persist_failure = "db"
    /\ outcome.kind = "returned"
    /\ outcome.result.segments # <<>>

\* C8 (as claimed): a remote run on an asset split into two or more chunks,
\* in which no call to a collaborator failed, ends by returning the merged
\* transcript, having passed through Segmenting, Transcribing and Merging.
C8_MultiChunkRunCompletes ==
    (/\ ~run.use_local_gpu
     /\ Len(run.audio_chunks) >= 2
     /\ ~run.env_fault
     /\ outcome.kind # "none") =>
        /\ outcome.kind = "returned"
        /\ run.stage = "Complete"
        /\ {"Segmenting", "Transcribing", "Merging"} \subseteq run.visited
        /\ outcome.result = Result("dict", run.all_segments, run.full_text_parts)

(***************************************************************************)
(* Claims about split_audio_file (checked under SpecSplit).                *)
(***************************************************************************)
\* split_audio_file has returned its list.
SplitHasReturned == run.pc = "transcribe"

\* C9: for an asset of at most max_audio_file_size_mb, split_audio_file
\* returns one chunk, the audio file itself and whole; the walk never
\* starts, no chunks directory and no other file appears.
C9_SmallAssetReturnedAsIs ==
    run.asset.size <= MB(max_audio_file_size_mb) =>
        /\ seg = SegIdle
        /\ fs = {SessionDir, AudioPath}
        /\ run.error = NoValue
        /\ SplitHasReturned =>
              run.audio_chunks = <<Chunk(AudioPath, 0, run.asset.duration_ms)>>

\* Witness of C9: an asset of exactly 24 MB came back as the single chunk.
W_C9_AtTheLimit ==
    /\ SplitHasReturned
    /\ run.asset.size = MB(max_audio_file_size_mb)
    /\ Len(run.audio_chunks) = 1
    /\ run.audio_chunks[1].path = AudioPath

\* Consecutive chunks overlap by exactly audio_chunk_overlap_ms.
ContiguousModuloOverlap(chunks) ==
    \A k \in 1..(Len(chunks) - 1) :
        chunks[k].end - chunks[k + 1].start = audio_chunk_overlap_ms

\* C10: for an asset over the limit, with a positive duration, the chunks
\* exported so far and the chunks returned are contiguous modulo overlap.
C10_ChunksContiguousModuloOverlap ==
    run.asset.size > MB(max_audio_file_size_mb) =>
        /\ ContiguousModuloOverlap(seg.chunks)
        /\ ContiguousModuloOverlap(run.audio_chunks)

\* Witness of C10: a returned list of at least three chunks whose last chunk
\* is the tail left over by the overlap.
W_C10_ThreeChunksWithTail ==
    /\ SplitHasReturned
    /\ Len(run.audio_chunks) >= 3
    /\ run.audio_chunks[Len(run.audio_chunks)].end = run.asset.duration_ms
    /\ run.audio_chunks[Len(run.audio_chunks)].start =
          run.asset.duration_ms - audio_chunk_overlap_ms

\* The walk has exported max_chunks chunks.
AtMaxChunks == seg.active /\ seg.chunk_num >= max_chunks

\* C11: split_audio_file never exports or returns more than max_chunks
\* chunks; once max_chunks chunks are exported its next step raises
\* AudioDownloadError and exports nothing more.
C11_NeverMoreThanMaxChunks ==
    /\ [](/\ Len(seg.chunks) <= max_chunks
          /\ Len(run.audio_chunks) <= max_chunks
          /\ Cardinality({p \in fs : p.n >= 0}) <= max_chunks)
    /\ [][AtMaxChunks =>
            /\ run'.stage = "Failed"
            /\ run'.error.cls = "AudioDownloadError"
            /\ run'.audio_chunks = <<>>
            /\ fs' = fs]_vars

\* Witness of C11: the walk stopped at max_chunks chunks, short of the end of
\* the asset, and raised.
W_C11_StoppedAtMaxChunks ==
    /\ run.stage = "Failed"
    /\ ~run.env_fault
    /\ run.error = Raised("AudioDownloadError", {}, max_chunks)
    /\ Cardinality({p \in fs : p.n >= 0}) = max_chunks
    /\ ChunkPath(max_chunks) \notin fs

\* The asset of the scenario: 27.5 MB, 20 minutes, 192 kbps.
ScenarioAsset == Asset(MB(27) + 2, 1200000)

\* C12 (as claimed): split_audio_file on the 27.5 MB, 20 minute asset
\* returns exactly 2 chunks.
C12_ScenarioYieldsTwoChunks ==
    (SplitHasReturned /\ run.asset = ScenarioAsset) => Len(run.audio_chunks) = 2

(***************************************************************************)
(* Claims about the merge of the per-chunk results (checked under Spec).   *)
(***************************************************************************)
RECURSIVE SumOfDurations(_, _)
\* The durations of the first n chunks, added up.
SumOfDurations(chunks, n) ==
    IF n = 0 THEN 0
    ELSE SumOfDurations(chunks, n - 1) + (chunks[n].end - chunks[n].start)

\* The sum over j < i of (chunkDurations[j] - overlap).
OffsetOfChunk(chunks, i) ==
    SumOfDurations(chunks, i - 1) - (i - 1) * audio_chunk_overlap_ms

\* The loop over the chunks of a split asset is running or has just ended.
Merging == run.pc \in {"transcribe", "merge"} /\ Len(run.audio_chunks) > 1

\* The chunks whose results the loop has merged so far.
ChunksMerged == IF run.pc = "merge" THEN Len(run.audio_chunks) ELSE run.i - 1

\* C13: while the chunk results are merged in order, the offset carried into
\* chunk i is the sum over j < i of (duration of chunk j - overlap), whatever
\* the number of chunks merged before, and every merged segment of chunk i
\* is that chunk's segment shifted by this offset at both ends.
C13_MergeOffsets ==
    Merging =>
        /\ run.cumulative_time = OffsetOfChunk(run.audio_chunks, ChunksMerged + 1)
        /\ Len(run.full_text_parts) = ChunksMerged
        /\ \A k \in DOMAIN run.all_segments :
              LET sg == run.all_segments[k]
                  i  == sg.text
              IN  /\ i \in 1..ChunksMerged
                  /\ sg.start = OffsetOfChunk(run.audio_chunks, i)
                  /\ sg.end = OffsetOfChunk(run.audio_chunks, i)
                                + (run.audio_chunks[i].end - run.audio_chunks[i].start)
                  /\ \A m \in DOMAIN run.all_segments :
                        m < k => run.all_segments[m].text < i

\* Witness of C13: three chunks merged, the third one's segment among the
\* merged segments, after an earlier chunk's.
W_C13_ThirdChunkShifted ==
    /\ run.pc = "merge"
    /\ Len(run.audio_chunks) >= 3
    /\ Len(run.all_segments) >= 2
    /\ run.all_segments[Len(run.all_segments)].text = 3
    /\ run.all_segments[Len(run.all_segments)].start > 0

(***************************************************************************)
(* Claims about the audio file and the local backend (checked under Spec). *)
(***************************************************************************)
\* process_youtube_video has returned or raised.
RunEnded == outcome.kind # "none"

C15_ModelInitializedAtMostOnce ==
    model_loads <= 1

\* The calls of the model's transcribe made by the local transcription that
\* is running, or that failed the run.
LocalTranscribeCalls ==
    IF run.use_local_gpu /\ (run.pc = "local_transcribe" \/ run.failed_stage = "Transcribing")
      THEN apiLog ELSE <<>>

\* The run failed in the local backend and has raised to its caller.
LocalBackendFailed ==
    RunEnded /\ run.use_local_gpu /\ run.failed_stage = "Transcribing"

MaxProjects == 3

\* The ids a caller asks for: those of the rows and one beyond.
ProjectIds == 1..(MaxProjects + 1)

\* A call and what it handed back.
Call(op, arg, result) == [op |-> op, arg |-> arg, result |-> result]

InitDb ==
    /\ ex = ExIdle
    /\ script = <<>>
    /\ seg = SegIdle
    /\ run = RunIdle
    /\ fs = {}
    /\ apiLog = <<>>
    /\ outcome = NoOutcome
    /\ gpu_model_cache = "None"
    /\ model_loads = 0
    /\ AppIdle

\* insert_project: INSERT INTO projects; `return project_id` (cursor.lastrowid).
insert_project ==
    /\ db.lastrowid < MaxProjects
    /\ LET project_id == db.lastrowid + 1
       IN  /\ db' = [rows |-> db.rows \cup {project_id}, lastrowid |-> project_id]
           /\ trace' = <<Call("insert_project", project_id, "id")>>
    /\ UNCHANGED <<pipeState, config, response_cache, store, threads, session_state, now>>

\* delete_project: DELETE FROM projects WHERE id = ?; no row is no error.
delete_project ==
    /\ \E project_id \in ProjectIds :
          /\ db' = [db EXCEPT !.rows = @ \ {project_id}]
          /\ trace' = <<Call("delete_project", project_id, "None")>>
    /\ UNCHANGED <<pipeState, config, response_cache, store, threads, session_state, now>>

\* get_project: `row = cursor.fetchone(); if not row: return None`, else the
\* Project built from the row.
GetProjectResult(row_found) == IF row_found THEN "Project" ELSE "None"

get_project ==
    /\ \E project_id \in ProjectIds :
          trace' = <<Call("get_project", project_id, GetProjectResult(project_id \in db.rows))>>
    /\ UNCHANGED <<pipeState, config, response_cache, store, threads, session_state, db, now>>

NextDb == insert_project \/ delete_project \/ get_project

SpecDb == InitDb /\ [][NextDb]_vars

\* The last call was get_project for an id that has no row.
GotMissingProject ==
    /\ trace # <<>>
    /\ trace[1].op = "get_project"
    /\ trace[1].arg \notin db.rows

\* C17 (as claimed): get_project for an id without a row, never inserted or
\* deleted since, raises ProjectNotFoundError.
C17_GetMissingProjectRaises ==
    GotMissingProject => trace[1].result = "ProjectNotFoundError"

(***************************************************************************)
(* check_chat_rate_limit (src/app.py.py 610-638), on st.session_state and  *)
(* the clock.  Times are whole seconds.                                    *)
(***************************************************************************)
\* The clock stops at this time.
MaxClock == 6

\* Calls of check_chat_rate_limit in one behaviour.
MaxChatCalls == 3

ProjectKeys == {"p1", "p2"}

\* The values of min_seconds the callers and the tests pass.
MinSecondsChoices == {2, 5}

\* rate_limit_key = f"chat_rate_limit_{project_key}"
RateLimitKey(project_key) == "chat_rate_limit_" \o project_key

\* The tuple check_chat_rate_limit returns, with the session state it leaves.
Decision(ss, is_allowed, wait_time) ==
    [session_state |-> ss, is_allowed |-> is_allowed, wait_time |-> wait_time]

\* Mutant of CheckChatRateLimit: a refused call restarts the waiting time.
CheckChatRateLimitRestartsOnRefusal(ss, project_key, min_seconds, current_time) ==
    LET rate_limit_key == RateLimitKey(project_key)
        stamped == (rate_limit_key :> current_time) @@ ss
    IN  IF rate_limit_key \notin DOMAIN ss
          THEN Decision(stamped, TRUE, <<>>)
        ELSE IF current_time - ss[rate_limit_key] < min_seconds
          THEN Decision(stamped, FALSE,
                        <<min_seconds - (current_time - ss[rate_limit_key])>>)
        ELSE Decision(stamped, TRUE, <<>>)

\* The body of check_chat_rate_limit.  wait_time is <<>> for None.
CheckChatRateLimit(ss, project_key, min_seconds, current_time) ==
    LET rate_limit_key == RateLimitKey(project_key)
        stamped == (rate_limit_key :> current_time) @@ ss
    IN  IF rate_limit_key \notin DOMAIN ss
          THEN Decision(stamped, TRUE, <<>>)
        ELSE IF current_time - ss[rate_limit_key] < min_seconds
          THEN Decision(ss, FALSE,
                        <<min_seconds - (current_time - ss[rate_limit_key])>>)
        ELSE Decision(stamped, TRUE, <<>>)

InitChat ==
    /\ ex = ExIdle
    /\ script = <<>>
    /\ seg = SegIdle
    /\ run = RunIdle
    /\ fs = {}
    /\ apiLog = <<>>
    /\ outcome = NoOutcome
    /\ gpu_model_cache = "None"
    /\ model_loads = 0
    /\ AppIdle

\* time.time() moves on.
ClockTick ==
    /\ now < MaxClock
    /\ now' = now + 1
    /\ UNCHANGED <<pipeState, config, response_cache, store, threads, session_state, db, trace>>

\* One call of check_chat_rate_limit at the current time.
check_chat_rate_limit ==
    /\ Len(trace) < MaxChatCalls
    /\ \E project_key \in ProjectKeys, min_seconds \in MinSecondsChoices :
          LET d == CheckChatRateLimit(session_state, project_key, min_seconds, now)
          IN  /\ session_state' = d.session_state
              /\ trace' = Append(trace,
                    [project_key |-> project_key, min_seconds |-> min_seconds,
                     current_time |-> now, is_allowed |-> d.is_allowed,
                     wait_time |-> d.wait_time])
    /\ UNCHANGED <<pipeState, config, response_cache, store, threads, db, now>>

NextChat == ClockTick \/ check_chat_rate_limit

SpecChat == InitChat /\ [][NextChat]_vars

\* The time from which the next call on project_key is measured, if any.
LastChatTime(ss, project_key) ==
    IF RateLimitKey(project_key) \in DOMAIN ss
      THEN <<ss[RateLimitKey(project_key)]>> ELSE <<>>

\* C18: two allowed calls on one project key are at least the later call's
\* min_seconds apart; a refused call changes no key's last chat time, and a
\* call changes no other key's.
C18_AllowedCallsSpacedPerKey ==
    /\ [](\A a, b \in DOMAIN trace :
            (/\ a < b
             /\ trace[a].project_key = trace[b].project_key
             /\ trace[a].is_allowed /\ trace[b].is_allowed) =>
                trace[b].current_time - trace[a].current_time >= trace[b].min_seconds)
    /\ [][Len(trace') = Len(trace) + 1 =>
            \A k \in ProjectKeys :
                (~trace'[Len(trace')].is_allowed \/ trace'[Len(trace')].project_key # k) =>
                    LastChatTime(session_state', k) = LastChatTime(session_state, k)]_vars

\* Witness of C18: on one key, an allowed call, a later refused call, and a
\* second allowed call exactly min_seconds after the first.
W_C18_AllowedRefusedAllowed ==
    /\ Len(trace) = 3
    /\ \A n \in 1..3 : trace[n].project_key = "p1"
    /\ trace[1].is_allowed /\ ~trace[2].is_allowed /\ trace[3].is_allowed
    /\ trace[2].current_time > trace[1].current_time
    /\ trace[3].current_time - trace[1].current_time = trace[3].min_seconds

(***************************************************************************)
(* record_sidebar_operation (src/sidebar_ops.py 7-29).                     *)
(***************************************************************************)
\* Calls of record_sidebar_operation in one behaviour.
MaxOperations == 10

\* `recent_ops[:8]`
RecentOpsLimit == 8

\* The (operation, status) pairs recorded.
OperationKinds == {<<"chat", "success">>, <<"chat", "error">>, <<"delete", "success">>}

\* The entry dict; timestamp is the position of the call in time.
Entry(timestamp, operation, status) ==
    [timestamp |-> timestamp, operation |-> operation, status |-> status]

\* seq[:n]
Prefix(s, n) == SubSeq(s, 1, Min(n, Len(s)))

\* Mutant of RecordSidebarOperation: the entry is appended, not inserted at 0.
RecordSidebarOperationAtEnd(ss, entry) ==
    LET base == IF "recent_operations" \in DOMAIN ss
                  THEN ss ELSE ("recent_operations" :> <<>>) @@ ss
        recent_ops == Append(base["recent_operations"], entry)
    IN  ("recent_operations" :> Prefix(recent_ops, RecentOpsLimit)) @@ base

\* The body of record_sidebar_operation: the list is created if missing, the
\* entry inserted at index 0, the first 8 kept.
RecordSidebarOperation(ss, entry) ==
    LET base == IF "recent_operations" \in DOMAIN ss
                  THEN ss ELSE ("recent_operations" :> <<>>) @@ ss
        recent_ops == <<entry>> \o base["recent_operations"]
    IN  ("recent_operations" :> Prefix(recent_ops, RecentOpsLimit)) @@ base

InitSidebar ==
    /\ ex = ExIdle
    /\ script = <<>>
    /\ seg = SegIdle
    /\ run = RunIdle
    /\ fs = {}
    /\ apiLog = <<>>
    /\ outcome = NoOutcome
    /\ gpu_model_cache = "None"
    /\ model_loads = 0
    /\ AppIdle

record_sidebar_operation ==
    /\ Len(trace) < MaxOperations
    /\ \E kind \in OperationKinds :
          LET entry == Entry(Len(trace) + 1, kind[1], kind[2])
          IN  /\ session_state' = RecordSidebarOperation(session_state, entry)
              /\ trace' = Append(trace, entry)
    /\ UNCHANGED <<pipeState, config, response_cache, store, threads, db, now>>

NextSidebar == record_sidebar_operation

SpecSidebar == InitSidebar /\ [][NextSidebar]_vars

\* The last n entries recorded, newest first.
NewestFirst(n) == [k \in 1..n |-> trace[Len(trace) - k + 1]]

\* C19: after any number of calls the list holds the entries recorded last,
\* newest first: all of them up to 8, the last 8 beyond.
C19_RecentOperationsNewestFirst ==
    trace # <<>> =>
        /\ "recent_operations" \in DOMAIN session_state
        /\ Len(session_state["recent_operations"]) <= RecentOpsLimit
        /\ session_state["recent_operations"] = NewestFirst(Min(RecentOpsLimit, Len(trace)))

\* Witness of C19: ten entries recorded; the list runs from the tenth down
\* to the third.
W_C19_TenRecordedEightKept ==
    /\ Len(trace) = 10
    /\ Len(session_state["recent_operations"]) = 8
    /\ session_state["recent_operations"][1] = trace[10]
    /\ session_state["recent_operations"][8] = trace[3]

(***************************************************************************)
(* _transcribe_single_file on its own (1231-1296): the executor on a       *)
(* scripted API, then the classification of the exception it let through.  *)
(***************************************************************************)
\* The markers an error text can hold.
Markers == {"413", "payload too large", "payload", "file size", "rate_limit",
            "quota", "429", "connection", "timeout", "network"}

\* The lower-cased error texts, as the set of markers each holds: every
\* single marker, none, and pairs from different classes.
ClassifyTexts ==
    {{m} : m \in Markers}
    \cup {{}, {"payload", "quota"}, {"file size", "429"}, {"quota", "timeout"},
          {"413", "network"}}

\* What the n-th call of the API can do.
ClassifyOutcomes(n) ==
    {Success(n, 1)} \cup {Raised("APIError", t, n) : t \in ClassifyTexts}

InitClassify ==
    /\ ex = WhisperStart
    /\ script \in {s \in [1..WhisperStart.max_retries ->
                            UNION {ClassifyOutcomes(n) : n \in 1..WhisperStart.max_retries}] :
                      \A n \in 1..WhisperStart.max_retries : s[n].call = n}
    /\ seg = SegIdle
    /\ run = [RunIdle EXCEPT !.pc = "transcribe", !.stage = "Transcribing",
                             !.asset = Asset(MB(10), 600000),
                             !.audio_chunks = <<Chunk(AudioPath, 0, 600000)>>,
                             !.i = 1]
    /\ fs = {SessionDir, AudioPath}
    /\ apiLog = <<>>
    /\ outcome = NoOutcome
    /\ gpu_model_cache = "None"
    /\ model_loads = 0
    /\ AppIdle

NextClassify ==
    \/ RetryReturn \/ RetrySleep \/ RetryGiveUp
    \/ TranscribeRaises \/ TranscribeSingleReturns

SpecClassify == InitClassify /\ [][NextClassify]_vars

\* _transcribe_single_file has raised.
SingleFileRaised == run.stage = "Failed" /\ run.failed_stage = "Transcribing"

\* The text of the exception of the last call.
TerminalText == script[WhisperStart.max_retries].text

\* The classification as claimed: "payload" or "file size" first.
ClassAsClaimed(t) ==
    IF Contains(t, "payload") \/ Contains(t, "file size")
      THEN "FileSizeError"
    ELSE IF Contains(t, "rate_limit") \/ Contains(t, "quota") \/ Contains(t, "429")
      THEN "APIQuotaError"
    ELSE IF Contains(t, "connection") \/ Contains(t, "timeout") \/ Contains(t, "network")
      THEN "APIConnectionError"
    ELSE "TranscriptionError"

\* The classification as amended: "413", "payload too large" or "file size" first.
ClassAsAmended(t) ==
    CASE Contains(t, "413") \/ Contains(t, "payload too large") \/ Contains(t, "file size")
            -> "FileSizeError"
      [] OTHER ->
            CASE Contains(t, "rate_limit") \/ Contains(t, "quota") \/ Contains(t, "429")
                    -> "APIQuotaError"
              [] OTHER ->
                    CASE Contains(t, "connection") \/ Contains(t, "timeout")
                            \/ Contains(t, "network") -> "APIConnectionError"
                      [] OTHER -> "TranscriptionError"

\* The error is raised only after every attempt has failed.
RaisedAfterAllAttempts ==
    /\ run.error.call = WhisperStart.max_retries
    /\ \A n \in DOMAIN script : ~script[n].ok

\* C20 (as claimed): the error raised after the last attempt is classified
\* from its text, "payload" or "file size" making it file-too-large.
C20_ClassifiedAsClaimed ==
    SingleFileRaised =>
        /\ RaisedAfterAllAttempts
        /\ run.error.cls = ClassAsClaimed(TerminalText)

\* C20 (amended): the same, with "413", "payload too large" or "file size"
\* making the error file-too-large.
C20_ClassifiedAfterLastAttempt ==
    SingleFileRaised =>
        /\ RaisedAfterAllAttempts
        /\ run.error.cls = ClassAsAmended(TerminalText)

\* Witness of C20: after two failures of another class, a third failure
\* holding both a file-size and a quota marker was raised as FileSizeError.
W_C20_FileSizeBeforeQuota ==
    /\ SingleFileRaised
    /\ TerminalText = {"file size", "429"}
    /\ script[1].text = {"connection"}
    /\ run.error.cls = "FileSizeError"

(***************************************************************************)
(* Claims about the sleeps of the retry executor (checked under SpecRetry).*)
(***************************************************************************)
RECURSIVE Power(_, _)
Power(b, k) == IF k = 0 THEN 1 ELSE b * Power(b, k - 1)

\* initial_delay, recovered from the delay after the sleeps made so far.
InitialDelayOf(e) == e.delay \div Power(e.backoff_factor, Len(e.sleeps))

\* D = initial_delay * backoff_factor^(n-1), in ms.
BackoffDelay(e, n) == InitialDelayOf(e) * Power(e.backoff_factor, n - 1)

\* C21 (as claimed): the n-th sleep lies between D and D + jitter * D, the
\* jitter read as a fraction (jitter is in thousandths here, as the times
\* are in ms).
C21_JitterBoundedByFractionOfDelay ==
    \A n \in DOMAIN ex.sleeps :
        /\ BackoffDelay(ex, n) <= ex.sleeps[n]
        /\ ex.sleeps[n] <= BackoffDelay(ex, n) + (ex.jitter * BackoffDelay(ex, n)) \div 1000

\* C21 (amended): the n-th sleep lies between D and D + jitter, the jitter
\* being a number of seconds that does not grow with the delay.
C21_JitterBoundedByAbsoluteJitter ==
    \A n \in DOMAIN ex.sleeps :
        /\ BackoffDelay(ex, n) <= ex.sleeps[n]
        /\ ex.sleeps[n] <= BackoffDelay(ex, n) + ex.jitter

\* Witness of C21: with the policy of the local backend (0.5 s, jitter 0.3)
\* the first sleep took 0.8 s, and a second sleep followed a delay of 1 s.
W_C21_LocalPolicyFullJitter ==
    /\ Len(ex.sleeps) = 2
    /\ ex.jitter = 300
    /\ ex.sleeps[1] = 800
    /\ ex.sleeps[2] >= 1000

(***************************************************************************)
(* The walk of split_audio_file for any overlap: config is constructed     *)
(* with audio_chunk_overlap_ms drawn from OverlapChoices, and the walk     *)
(* runs to its end (the function is sequential code, so a step that is     *)
(* enabled is taken).                                                      *)
(***************************************************************************)
\* Overlaps in ms: none, the default, and values around half a minimum
\* chunk, a minimum chunk and beyond.
OverlapChoices == {0, 1, 500, 150000, 150001, 299999, 300000, 300001, 400000, 1000000}

InitWalk ==
    /\ ex = ExIdle
    /\ script = <<>>
    /\ seg = SegIdle
    /\ \E sz \in SplitSizes, d \in SplitDurations :
          run = [RunIdle EXCEPT !.pc = "split", !.stage = "Segmenting",
                                !.asset = Asset(sz, d)]
    /\ fs = {SessionDir, AudioPath}
    /\ apiLog = <<>>
    /\ outcome = NoOutcome
    /\ gpu_model_cache = "None"
    /\ model_loads = 0
    /\ session_state = EmptySessionState
    /\ db = EmptyDb
    /\ now = 0
    /\ trace = <<>>
    /\ \E o \in OverlapChoices : config = [Config EXCEPT !.audio_chunk_overlap_ms = o]
    /\ threads = NoThreads
    /\ store = EmptyStore
    /\ response_cache = EmptyCache

SpecWalk == InitWalk /\ [][NextSplit]_vars /\ WF_vars(NextSplit)

\* split_audio_file is over: it returned or raised.
WalkEnded == run.pc # "split"

\* `new_start <= start` for the chunk the iteration exports
OverlapWouldNotAdvance(sg) == ChunkEnd(sg) - config.audio_chunk_overlap_ms <= sg.start

\* C22: for every asset of positive duration and every non-negative overlap,
\* each iteration of the chunk loop moves the position strictly forward, by
\* half a chunk duration whenever end - overlap would not pass the previous
\* position, and the walk ends.
C22_WalkAdvancesAndTerminates ==
    /\ [][SplitChunk =>
            /\ seg'.start > seg.start
            /\ OverlapWouldNotAdvance(seg) =>
                  seg'.start = seg.start + (seg.chunk_duration_ms \div 2)]_vars
    /\ <>WalkEnded

\* The half-chunk advance was used in the middle of a walk: the chunk just
\* exported was no longer than the overlap, and the position it led to is
\* still before the end of the audio.
W_C22_HalfChunkAdvanceMidWalk ==
    /\ seg.active
    /\ Len(seg.chunks) >= 2
    /\ LET last == seg.chunks[Len(seg.chunks)]
       IN  /\ last.end - config.audio_chunk_overlap_ms <= last.start
           /\ seg.start = last.start + (seg.chunk_duration_ms \div 2)
    /\ seg.start < seg.total_duration_ms

(***************************************************************************)
(* transcribe_audio_with_local_gpu (1413-1513) called from several threads *)
(* of one process that share the module global _gpu_model_cache.  The      *)
(* test `_gpu_model_cache is None`, the construction WhisperModel(...)     *)
(* and the assignment to the global are separate steps: the interpreter    *)
(* may switch threads between them, and no lock is taken.                  *)
(***************************************************************************)
\* Mutant of CacheIsNone: the cache is never looked at.
CacheIsNoneAlways(cache) == TRUE

\* `_gpu_model_cache is None`
CacheIsNone(cache) == cache = "None"

\* The number of assignments `_gpu_model_cache = WhisperModel(...)` completed.
Stores == Cardinality({t \in Threads : threads[t].pc \in {"transcribe", "done"}
                                       /\ threads[t].constructed})

\* A thread enters the function.
GpuEnter(t) ==
    /\ threads[t].pc = "idle"
    /\ threads' = [threads EXCEPT ![t].pc = "check"]
    /\ UNCHANGED <<pipeState, config, response_cache, store, session_state, db, now, trace>>

\* `if _gpu_model_cache is None:` evaluated by thread t.
GpuCheckCache(t) ==
    /\ threads[t].pc = "check"
    /\ threads' = [threads EXCEPT
                     ![t].pc = IF CacheIsNone(gpu_model_cache) THEN "construct" ELSE "transcribe",
                     ![t].saw_none = (gpu_model_cache = "None"),
                     ![t].stores_seen = Stores]
    /\ UNCHANGED <<pipeState, config, response_cache, store, session_state, db, now, trace>>

\* WhisperModel("small", device="cuda", compute_type="int8") returns to thread t.
GpuConstruct(t) ==
    /\ threads[t].pc = "construct"
    /\ model_loads' = model_loads + 1
    /\ threads' = [threads EXCEPT ![t].pc = "store", ![t].constructed = TRUE]
    /\ UNCHANGED <<ex, script, seg, run, fs, apiLog, outcome, gpu_model_cache,
                   config, response_cache, store, session_state, db, now, trace>>

\* WhisperModel(...) raises in thread t: `except Exception` turns it into
\* TranscriptionError and the cache is left as it was.
GpuConstructRaises(t) ==
    /\ threads[t].pc = "construct"
    /\ threads' = [threads EXCEPT ![t].pc = "raised"]
    /\ UNCHANGED <<pipeState, config, response_cache, store, session_state, db, now, trace>>

\* `_gpu_model_cache = <the model thread t constructed>`
GpuStore(t) ==
    /\ threads[t].pc = "store"
    /\ gpu_model_cache' = "model"
    /\ threads' = [threads EXCEPT ![t].pc = "transcribe",
                                  ![t].overwrote = (gpu_model_cache # "None")]
    /\ UNCHANGED <<ex, script, seg, run, fs, apiLog, outcome, model_loads,
                   config, response_cache, store, session_state, db, now, trace>>

\* _gpu_model_cache.transcribe(...) and the rest of the function.
GpuTranscribe(t) ==
    /\ threads[t].pc = "transcribe"
    /\ threads' = [threads EXCEPT ![t].pc = "done"]
    /\ UNCHANGED <<pipeState, config, response_cache, store, session_state, db, now, trace>>

InitThreads ==
    /\ ex = ExIdle
    /\ script = <<>>
    /\ seg = SegIdle
    /\ run = RunIdle
    /\ fs = {}
    /\ apiLog = <<>>
    /\ outcome = NoOutcome
    /\ gpu_model_cache = "None"
    /\ model_loads = 0
    /\ AppIdle

NextThreads ==
    \E t \in Threads :
        \/ GpuEnter(t) \/ GpuCheckCache(t) \/ GpuConstruct(t) \/ GpuConstructRaises(t)
        \/ GpuStore(t) \/ GpuTranscribe(t)

SpecThreads == InitThreads /\ [][NextThreads]_vars

\* C23: the cache is not protected by mutual exclusion.  The only thing that
\* keeps a thread from constructing the model is its own test of the cache:
\* a thread constructs only after it observed the cache empty, before any
\* handle was stored, and the model has been constructed once for every
\* thread that went on from such an observation; two threads that both
\* observe the empty cache construct it twice (the witness).
C23_ConstructionFollowsOwnObservation ==
    /\ \A t \in Threads :
          threads[t].pc \in {"construct", "store"} \/ threads[t].constructed
             => threads[t].saw_none /\ threads[t].stores_seen = 0
    /\ model_loads = Cardinality({t \in Threads : threads[t].constructed})

\* Two threads observed the empty cache, the model was constructed twice
\* and the second assignment replaced the handle the first had stored.
W_C23_ConstructedTwiceOneOverwritten ==
    /\ model_loads = 2
    /\ \E t, u \in Threads :
          /\ t # u
          /\ threads[t].saw_none /\ threads[t].constructed /\ threads[t].pc = "done"
          /\ threads[u].saw_none /\ threads[u].constructed /\ threads[u].pc = "done"
          /\ threads[u].overwrote /\ ~threads[t].overwrote

C25_ChunksCoverTimeline ==
    SplitHasReturned /\ ~WithinLimit(run.asset) =>
        LET chunks == run.audio_chunks
        IN  /\ chunks # <<>>
            /\ chunks[1].start = 0
            /\ \A k \in 1..(Len(chunks) - 1) : chunks[k + 1].start <= chunks[k].end
            /\ chunks[Len(chunks)].end = run.asset.duration_ms

\* Three or more chunks were returned with no overlap configured: each chunk
\* starts exactly where the one before it ends.
W_C25_AbuttingChunksReturned ==
    /\ SplitHasReturned
    /\ config.audio_chunk_overlap_ms = 0
    /\ Len(run.audio_chunks) >= 3
    /\ \A k \in 1..(Len(run.audio_chunks) - 1) :
          run.audio_chunks[k + 1].start = run.audio_chunks[k].end

(***************************************************************************)
(* The merge of transcribe_audio_with_timestamps (1338-1393) on chunks     *)
(* that split_audio_file returned, every API call succeeding with one of   *)
(* the segment lists of ResultSegments.                                    *)
(***************************************************************************)
SegmentPayloads == {0, 1, 2, 3}

\* 27.5 MB in 20 minutes (3 chunks) and 40 MB in 25 minutes (4 chunks).
MergeAssets == {Asset(MB(27) + 2, 1200000), Asset(MB(40), 1500000)}

InitMerge ==
    /\ ex = ExIdle
    /\ script = <<>>
    /\ seg = SegIdle
    /\ \E a \in MergeAssets :
          run = [RunIdle EXCEPT !.pc = "split", !.stage = "Segmenting", !.asset = a]
    /\ fs = {SessionDir, AudioPath}
    /\ apiLog = <<>>
    /\ outcome = NoOutcome
    /\ gpu_model_cache = "None"
    /\ model_loads = 0
    /\ AppIdle

\* client.audio.transcriptions.create returns on the first attempt.
WhisperReturns ==
    /\ run.pc = "transcribe"
    /\ ex.status = "running"
    /\ \E v \in SegmentPayloads :
          LET out == Success(ex.calls + 1, v)
          IN  /\ ex' = ExAttempt(ex, out, 0)
              /\ apiLog' = Append(apiLog, out)
    /\ UNCHANGED <<script, seg, run, fs, outcome, gpu_model_cache, model_loads, appState>>

NextMerge ==
    \/ SplitBegin \/ SplitChunk \/ SplitReturns
    \/ WhisperReturns \/ TranscribeChunkReturns \/ MergeReturns

SpecMerge == InitMerge /\ [][NextMerge]_vars

\* The segments merged so far, and after the loop those of the result.
MergedSegments == IF run.pc = "transcribe" THEN run.all_segments ELSE run.result.segments

\* C26 (as claimed): with every chunk's segments in start order and within
\* [0, the chunk's duration], the starts of the merged transcript are
\* non-decreasing in sequence order, also across chunk boundaries.
C26_MergedStartsNonDecreasing ==
    \A k \in 1..(Len(MergedSegments) - 1) :
        MergedSegments[k].start <= MergedSegments[k + 1].start

\* C26 (amended): the starts are non-decreasing among the segments of one
\* chunk, and from the last segment of a chunk to the first of the next a
\* start goes back by at most the overlap.  (The text of a segment is the
\* index of its chunk.)
C26_MergedStartsGoBackAtMostOverlap ==
    \A k \in 1..(Len(MergedSegments) - 1) :
        IF MergedSegments[k].text = MergedSegments[k + 1].text
          THEN MergedSegments[k].start <= MergedSegments[k + 1].start
          ELSE MergedSegments[k].start - config.audio_chunk_overlap_ms
                  <= MergedSegments[k + 1].start

\* The merge is done, and a segment that starts at the very end of its chunk
\* is followed by the next chunk's first segment, exactly one overlap earlier.
W_C26_StartGoesBackByOverlap ==
    /\ run.pc = "write_transcript"
    /\ run.result.kind = "dict"
    /\ \E k \in 1..(Len(MergedSegments) - 1) :
          /\ MergedSegments[k].text # MergedSegments[k + 1].text
          /\ MergedSegments[k + 1].start
                = MergedSegments[k].start - config.audio_chunk_overlap_ms

(***************************************************************************)
(* The project library of the Streamlit script: the "Process Video"        *)
(* handler (3176-3340), the sidebar's Delete / Confirm buttons             *)
(* (3037-3078), "Undo last delete" (2792-2816) with                        *)
(* restore_project_from_trash (2292-2376), "Delete All Projects"           *)
(* (3085-3106), delete_project (2209-2290) and evaluate_health_alerts      *)
(* (src/telemetry.py).  One action is one click: the run of the script     *)
(* with that button pressed.  File moves and database statements may fail. *)
(***************************************************************************)
MaxClicks == 5

\* Names of session directories.
Dirs == {"p1", "p2"}

\* The sidebar lists the rows of the projects table (2583-2606).
Projects == store.rows

\* The part of DeletionResult the callers read, with the store it leaves.
DeletionResult(st, success, disk_removed, db_deleted) ==
    [store |-> st, success |-> success, disk_removed |-> disk_removed,
     db_deleted |-> db_deleted]

\* delete_project(project_dir_name) of app.py.py: the directory is moved to
\* the trash if it is in output_dir, the row is deleted if there is one;
\* either step may raise, which is logged.
DeleteProject(st, d, move_ok, db_ok) ==
    LET disk_removed == d \in st.output /\ move_ok
        db_deleted   == d \in st.rows /\ db_ok
        st1 == IF disk_removed
                 THEN [st EXCEPT !.output = @ \ {d}, !.trash = @ \cup {d}]
                 ELSE st
        st2 == IF db_deleted THEN [st1 EXCEPT !.rows = @ \ {d}] ELSE st1
    IN  DeletionResult(st2, disk_removed \/ db_deleted, disk_removed, db_deleted)

\* st.session_state["last_deleted_project"] after a successful delete.
Tombstone(d, r) ==
    [project_dir |-> d, trash_path |-> IF r.disk_removed THEN d ELSE "",
     disk_removed |-> r.disk_removed, db_removed |-> r.db_deleted]

\* The tuple restore_project_from_trash returns, with the store it leaves.
RestoreResult(st, restored, message) ==
    [store |-> st, restored |-> restored, message |-> message]

\* shutil.move(str(trash_path), str(target_path))
MovedOut(st, d) == [st EXCEPT !.trash = @ \ {d}, !.output = @ \cup {d}]

\* Mutant of MovedBack: the directory is copied to the trash, not moved.
MovedBackCopy(st, d) == [st EXCEPT !.trash = @ \cup {d}]

\* shutil.move(str(target_path), str(trash_path)) in the except clause
MovedBack(st, d) == [st EXCEPT !.output = @ \ {d}, !.trash = @ \cup {d}]

\* restore_project_from_trash(tombstone).  insert_project raises when the
\* database fails or when a row with this project_dir exists (the column is
\* UNIQUE); a failure of the move back is logged and nothing more.
RestoreProjectFromTrash(st, tombstone, move_out_ok, insert_ok, move_back_ok) ==
    LET d == tombstone.project_dir
    IN  IF tombstone.trash_path = ""
          THEN RestoreResult(st, FALSE, "Invalid trash path location.")
        ELSE IF d \notin st.trash
          THEN RestoreResult(st, FALSE, "Trash entry is missing.")
        ELSE IF d \in st.output
          THEN RestoreResult(st, FALSE, "Project already exists.")
        ELSE IF ~move_out_ok
          THEN RestoreResult(st, FALSE, "Failed to move files back")
        ELSE IF insert_ok /\ d \notin st.rows
          THEN RestoreResult([MovedOut(st, d) EXCEPT !.rows = @ \cup {d}], TRUE,
                             "Project restored successfully.")
        ELSE RestoreResult(IF move_back_ok THEN MovedBack(MovedOut(st, d), d)
                                           ELSE MovedOut(st, d),
                           FALSE, "Failed to restore project in database")

\* failure_threshold: config.telemetry_failure_threshold
telemetry_failure_threshold == 3

\* failure_count of evaluate_health_alerts: the entries whose status is not "success"
FailureCount(recent_operations) ==
    Cardinality({k \in DOMAIN recent_operations :
                    recent_operations[k].status # "success"})

\* evaluate_health_alerts appends the "recent operation(s) failed" alert.
FailureAlert(recent_operations, failure_threshold) ==
    FailureCount(recent_operations) >= failure_threshold

\* st.session_state["recent_operations"], as the sidebar passes it at 2782-2787
\* (the key is set to [] at the start of the script when it is missing).
RecentOperations ==
    IF "recent_operations" \in DOMAIN session_state
      THEN session_state["recent_operations"] ELSE <<>>

\* The key of the Delete / Confirm pair of a project.
DeleteKey(d) == "del_" \o d

Clicks == Len(trace)

InitProjects ==
    /\ ex = ExIdle
    /\ script = <<>>
    /\ seg = SegIdle
    /\ run = RunIdle
    /\ fs = {}
    /\ apiLog = <<>>
    /\ outcome = NoOutcome
    /\ gpu_model_cache = "None"
    /\ model_loads = 0
    /\ AppIdle

\* "Process Video": "started" is recorded; then the script stops (invalid
\* URL, rate limit), or process_youtube_video returns and "success" is
\* recorded with the new session directory and its row, or it raises, its
\* handler removes the directory, and "failed" is recorded.
ProcessVideoClicked ==
    /\ Clicks < MaxClicks
    /\ \E d \in Dirs \ (store.output \cup store.trash \cup store.rows),
          result \in {"stopped", "success", "failed"} :
          LET t       == Clicks + 1
              started == RecordSidebarOperation(session_state,
                                                Entry(t, "Process Video", "started"))
          IN  /\ session_state' =
                    IF result = "stopped" THEN started
                    ELSE RecordSidebarOperation(started, Entry(t, "Process Video", result))
              /\ store' = IF result = "success"
                            THEN [store EXCEPT !.output = @ \cup {d}, !.rows = @ \cup {d}]
                            ELSE store
              /\ trace' = Append(trace, Call("Process Video", d, result))
    /\ UNCHANGED <<pipeState, config, response_cache, threads, db, now>>

\* "Delete" of a listed project: st.session_state[delete_key] = True.
DeleteClicked ==
    /\ Clicks < MaxClicks
    /\ \E d \in Projects :
          /\ ~(DeleteKey(d) \in DOMAIN session_state /\ session_state[DeleteKey(d)])
          /\ session_state' = (DeleteKey(d) :> TRUE) @@ session_state
          /\ trace' = Append(trace, Call("Delete", d, "armed"))
    /\ UNCHANGED <<pipeState, config, response_cache, threads, store, db, now>>

\* "Confirm": delete_project; on success the operation is recorded and the
\* tombstone kept for "Undo last delete"; st.session_state[delete_key] = False.
ConfirmClicked ==
    /\ Clicks < MaxClicks
    /\ \E d \in Projects, move_ok \in BOOLEAN, db_ok \in BOOLEAN :
          /\ DeleteKey(d) \in DOMAIN session_state /\ session_state[DeleteKey(d)]
          /\ LET r  == DeleteProject(store, d, move_ok, db_ok)
                 t  == Clicks + 1
                 s1 == RecordSidebarOperation(session_state,
                          Entry(t, "Delete Project",
                                IF r.success THEN "success" ELSE "failed"))
                 s2 == IF r.success
                         THEN ("last_deleted_project" :> Tombstone(d, r)) @@ s1
                         ELSE s1
             IN  /\ store' = r.store
                 /\ session_state' = (DeleteKey(d) :> FALSE) @@ s2
                 /\ trace' = Append(trace,
                       Call("Confirm", d, IF r.success THEN "success" ELSE "failed"))
    /\ UNCHANGED <<pipeState, config, response_cache, threads, db, now>>

\* "Undo last delete": restore_project_from_trash(deleted_project); the
\* tombstone is dropped when the restore succeeded.
UndoLastDeleteClicked ==
    /\ Clicks < MaxClicks
    /\ "last_deleted_project" \in DOMAIN session_state
    /\ \E move_out_ok \in BOOLEAN, insert_ok \in BOOLEAN, move_back_ok \in BOOLEAN :
          LET tombstone == session_state["last_deleted_project"]
              r  == RestoreProjectFromTrash(store, tombstone,
                                            move_out_ok, insert_ok, move_back_ok)
              t  == Clicks + 1
              s1 == RecordSidebarOperation(session_state,
                       Entry(t, "Restore Project",
                             IF r.restored THEN "success" ELSE "failed"))
          IN  /\ store' = r.store
              /\ session_state' =
                    IF r.restored
                      THEN [k \in DOMAIN s1 \ {"last_deleted_project"} |-> s1[k]]
                      ELSE s1
              /\ trace' = Append(trace,
                    Call("Undo last delete", tombstone.project_dir, r.message))
    /\ UNCHANGED <<pipeState, config, response_cache, threads, db, now>>

\* `if confirm_all_key not in st.session_state` is false
ConfirmationArmed(ss) == "confirm_delete_all" \in DOMAIN ss

\* delete_project for each listed project, in turn.
RECURSIVE DeleteAll(_, _, _, _)
DeleteAll(st, ds, move_ok, db_ok) ==
    IF ds = {} THEN st
    ELSE LET d == CHOOSE x \in ds : TRUE
         IN  DeleteAll(DeleteProject(st, d, move_ok, db_ok).store, ds \ {d}, move_ok, db_ok)

\* "Delete All Projects" (shown while projects are listed): the first click
\* sets confirm_delete_all and warns; otherwise every listed project is
\* deleted, "success" is recorded and confirm_delete_all is set to False.
DeleteAllProjectsClicked ==
    /\ Clicks < MaxClicks
    /\ Projects # {}
    /\ IF ~ConfirmationArmed(session_state)
         THEN /\ session_state' = ("confirm_delete_all" :> TRUE) @@ session_state
              /\ trace' = Append(trace, Call("Delete All Projects", "", "armed"))
              /\ store' = store
         ELSE \E move_ok \in BOOLEAN, db_ok \in BOOLEAN :
                 /\ store' = DeleteAll(store, Projects, move_ok, db_ok)
                 /\ session_state' =
                       ("confirm_delete_all" :> FALSE)
                          @@ RecordSidebarOperation(session_state,
                                Entry(Clicks + 1, "Delete All Projects", "success"))
                 /\ trace' = Append(trace, Call("Delete All Projects", "", "deleted"))
    /\ UNCHANGED <<pipeState, config, response_cache, threads, db, now>>

NextProjects ==
    \/ ProcessVideoClicked \/ DeleteClicked \/ ConfirmClicked
    \/ UndoLastDeleteClicked \/ DeleteAllProjectsClicked

SpecProjects == InitProjects /\ [][NextProjects]_vars

\* The last click, and whether it was an undo that failed at the database row.
LastCall == trace[Len(trace)]

RestoreFailedInDatabase(c) ==
    c.op = "Undo last delete" /\ c.result = "Failed to restore project in database"

\* C27 (as claimed): restore_project_from_trash is all-or-nothing: when
\* re-creating the row fails after the directory was moved out of the trash,
\* the call returns failure with the project absent from the output
\* directory, present in the trash and absent from the database.
C27_FailedRestoreLeavesProjectInTrash ==
    trace # <<>> /\ RestoreFailedInDatabase(LastCall) =>
        /\ LastCall.arg \notin store.output
        /\ LastCall.arg \in store.trash
        /\ LastCall.arg \notin store.rows

\* C27 (amended): when re-creating the row fails after the directory was
\* moved out of the trash, the call returns failure and the rows are as
\* before the call; the directory is back in the trash, the store being as
\* before the call, unless the move back failed too, and then the directory
\* is in the output directory and no longer in the trash.
C27_FailedRestoreRollsBackUnlessMoveFails ==
    [][trace' # trace /\ RestoreFailedInDatabase(trace'[Len(trace')]) =>
          /\ store'.rows = store.rows
          /\ \/ store' = store
             \/ store' = MovedOut(store, trace'[Len(trace')].arg)]_vars

\* An undo failed at the database row and the move back succeeded: the
\* project is in the trash, not in the output directory, and has no row.
W_C27_FailedRestoreRolledBack ==
    /\ trace # <<>>
    /\ RestoreFailedInDatabase(LastCall)
    /\ LastCall.arg \in store.trash
    /\ LastCall.arg \notin store.output
    /\ LastCall.arg \notin store.rows

\* A click on "Delete All Projects" that deleted.
BulkDeletion(c) == c.op = "Delete All Projects" /\ c.result = "deleted"

\* A click on "Delete All Projects" that armed the confirmation.
BulkArming(c) == c.op = "Delete All Projects" /\ c.result = "armed"

\* C28: a click on "Delete All Projects" deletes only if an earlier click,
\* made after the most recent bulk deletion of the session (or after the
\* session's start), armed the confirmation.
C28_BulkDeletionNeedsArmingClick ==
    \A k \in DOMAIN trace :
        BulkDeletion(trace[k]) =>
            \E j \in 1..(k - 1) :
                /\ BulkArming(trace[j])
                /\ \A m \in (j + 1)..(k - 1) : ~BulkDeletion(trace[m])

\* C29: the "recent operation(s) failed" alert is emitted only when at least
\* failure_threshold of the recent operations failed; entries recorded as
\* "started" are not failures.
C29_AlertOnlyWhenOperationsFailed ==
    FailureAlert(RecentOperations, telemetry_failure_threshold) =>
        Cardinality({k \in DOMAIN RecentOperations :
                        RecentOperations[k].status = "failed"})
            >= telemetry_failure_threshold

(***************************************************************************)
(* src/qa_service.py: the response cache of answer_question_from_transcript*)
(* and clear_old_cache_entries.  The module is imported, so its globals    *)
(* live as long as the process.  A cache key stands for one (question,     *)
(* transcript) pair; a new question is given the time of its answer as     *)
(* key.  API calls are at least _min_call_interval = 1 s apart.            *)
(***************************************************************************)
_cache_max_age == 3600

_cache_max_size == 100

\* The clock stops here: one idle hour and some two hundred calls.
MaxQaClock == 3850

\* expired_keys removed: the entries with current_time - timestamp <= _cache_max_age
Unexpired(cache, current_time) ==
    [k \in {x \in DOMAIN cache : current_time - cache[x] <= _cache_max_age} |-> cache[k]]

\* dict(sorted_items[-_cache_max_size:]): the entries with the newest timestamps
Newest(cache, n) ==
    [k \in {x \in DOMAIN cache :
              Cardinality({y \in DOMAIN cache : cache[y] > cache[x]}) < n} |-> cache[k]]

\* clear_old_cache_entries() at current_time
ClearOldCacheEntries(cache, current_time) ==
    LET kept == Unexpired(cache, current_time)
    IN  IF Cardinality(DOMAIN kept) > _cache_max_size
          THEN Newest(kept, _cache_max_size)
          ELSE kept

InitQa ==
    /\ ex = ExIdle
    /\ script = <<>>
    /\ seg = SegIdle
    /\ run = RunIdle
    /\ fs = {}
    /\ apiLog = <<>>
    /\ outcome = NoOutcome
    /\ gpu_model_cache = "None"
    /\ model_loads = 0
    /\ AppIdle

\* answer_question_from_transcript, cache hit: the old entries are cleared
\* and the cached answer of a key still present is returned.
AnswerFromCache ==
    /\ LET cleared == ClearOldCacheEntries(response_cache, now)
       IN  /\ DOMAIN cleared # {}
           /\ response_cache' = cleared
    /\ UNCHANGED <<pipeState, config, threads, store, session_state, db, now, trace>>

\* answer_question_from_transcript, a question not in the cache: the old
\* entries are cleared, the API answers, the answer is stored under the new
\* key with the time; the next API call is a second later at the earliest.
AnswerFromApi ==
    /\ now < MaxQaClock
    /\ response_cache' = (now :> now) @@ ClearOldCacheEntries(response_cache, now)
    /\ now' = now + 1
    /\ UNCHANGED <<pipeState, config, threads, store, session_state, db, trace>>

\* The same, the API call raising: the error text is returned, nothing is
\* stored.  The time the failed call took is counted in the wait of the next
\* API call.
AnswerApiRaises ==
    /\ response_cache' = ClearOldCacheEntries(response_cache, now)
    /\ UNCHANGED <<pipeState, config, threads, store, session_state, db, now, trace>>

\* No question for more than _cache_max_age seconds.
QaIdleHour ==
    /\ now + _cache_max_age + 1 <= MaxQaClock
    /\ now' = now + _cache_max_age + 1
    /\ UNCHANGED <<pipeState, config, threads, store, session_state, db, trace, response_cache>>

NextQa == AnswerFromCache \/ AnswerFromApi \/ AnswerApiRaises \/ QaIdleHour

SpecQa == InitQa /\ [][NextQa]_vars

\* C30: after any sequence of answer_question_from_transcript calls the
\* response cache holds at most _cache_max_size (100) entries.
C30_CacheWithinMaxSize == Cardinality(DOMAIN response_cache) <= _cache_max_size

====
